---------------------------- MODULE Spec2Model ----------------------------
(***************************************************************************)
(* A model of mobile-dev-agent's algorithmic subsystems:                   *)
(*   - UI snapshot canonicalisation (src/src/lib/uiSnapshot.ts)            *)
(*   - run artifact retention, plan and execute (src/src/lib/gc.ts,        *)
(*     src/src/commands/gc.ts)                                             *)
(*   - selector parsing and tap resolution (src/src/lib/selector.ts,       *)
(*     cmdUiTap and tapWithResolvedTarget of the ui commands)              *)
(* Each subsystem has its own specification over the shared variables;     *)
(* the variables of the other subsystem stay at their idle values.         *)
(***************************************************************************)
EXTENDS Integers, Sequences, FiniteSets, TLC

VARIABLES
  \* --- snapshot subsystem
  platform,         \* "ios" | "android": which adapter produced the payload
  raw,              \* the raw accessibility payload handed to the parser
  interactiveOnly,  \* the parser's interactiveOnly flag
  parsed,           \* the parser's output (pre-canonical elements, no ref)
  snapshot,         \* the UISnapshot built from parsed
  snapPc,           \* "raw" -> "parsed" -> "built"
  \* --- retention subsystem
  fs,               \* the run directories on disk, by directory name
  now,              \* Date.now() of the planner
  listing,          \* listRuns: names returned by readdir, in readdir order
  runs,             \* listRuns: the RunInfo records collected so far
  policy,           \* {keepLast, keepFailureDays, maxBytes}
  dryRun,           \* cmdGC's --dry-run
  plan,             \* the GCPlan returned by planGC
  idx,              \* executeGC: index into plan.delete of the current entry
  st,               \* executeGC: result of the re-stat of the current entry
  gcPc,             \* position of cmdGC
  envSteps,         \* number of steps other processes have taken on the disk
  \* --- selector subsystem
  token,            \* ui tap: the positional selector token, a sequence of characters
  refOpt,           \* ui tap: the value of --ref, Null when not given
  selector,         \* the outcome of selector parsing: {ok, selector} or {ok, error}
  sessionFile,      \* the session's last-snapshot file
  loaded,           \* <<snapshot>> once loadLastSnapshotOrThrow returned it, else <<>>
  target,           \* the outcome of the tap: the point tapped, the error or the crash
  tapPc,            \* "start" -> "load" -> "resolve" -> "tapped" | "failed"
  \* --- Android bounds attribute
  boundsText,       \* <<>> for a node without bounds attribute, else <<characters of the value>>
  boundsOut,        \* <<>> before parseAndroidBounds returned, else <<its result>>
  \* --- the tap itself
  tapNow,           \* ui tap: Date.now() when the staleness of the snapshot is computed
  envelope,         \* ui tap: <<>> until the command ends, then <<its result envelope>>
  \* --- the snapshot store
  files,            \* path -> inode number, 0 for a path that does not exist
  inodes,           \* inode number -> the text it holds
  writes,           \* number of writeLastSnapshot calls started
  wr,               \* writer process -> its position in writeLastSnapshot
  rd,               \* the reader's position in readLastSnapshot
  latest,           \* session -> snapshot of the last completed write, 0 if none
  \* --- the session file and its lock
  lockFile,         \* .session.lock: 0 when absent, else who created it
  sessionJson,      \* the defaults session.json holds; all Null when there is no file
  procs,            \* process -> its operation and its position in withFileLock
  \* --- history of the run directories
  newDirs           \* the directories on disk that were created after planGC returned

snapVars == <<platform, raw, interactiveOnly, parsed, snapshot, snapPc>>
gcVars == <<fs, now, listing, runs, policy, dryRun, plan, idx, st, gcPc, envSteps>>
selVars == <<token, refOpt, selector, sessionFile, loaded, target, tapPc>>
boundsVars == <<boundsText, boundsOut>>
staleVars == <<tapNow, envelope>>
storeVars == <<files, inodes, writes, wr, rd, latest>>
lockVars == <<lockFile, sessionJson, procs>>
quietVars == <<boundsVars, staleVars, storeVars, lockVars>>
extVars == <<quietVars, newDirs>>
vars == <<snapVars, gcVars, selVars, extVars>>

\* JavaScript's null / undefined, where a string is expected.
Null == "<null>"

Max(a, b) == IF a >= b THEN a ELSE b

RECURSIVE Concat(_)
Concat(ss) == IF ss = <<>> THEN <<>> ELSE Head(ss) \o Concat(Tail(ss))

(***************************************************************************)
(* Bounds of the model.                                                    *)
(***************************************************************************)
\* Largest number of nodes in a raw accessibility payload.
MaxNodes == 3
\* Largest number of run directories the planner specification lists.
MaxRuns == 3
\* Number of run directory names of the executor specification.
MaxExecDirs == 2
\* Largest number of steps other processes take on the run directories.
MaxEnvSteps == 2
\* Number of times the snapshot command is run again on the same payload.
MaxRetakes == 1


(***************************************************************************)
(* uiSnapshot.ts: helpers shared by both parsers.                          *)
(***************************************************************************)
INTERACTABLE_ROLES == {"button", "textbox", "link", "checkbox", "switch"}

\* nonZeroBounds accepting a rectangle with one positive side.
nonZeroBoundsEither(b) == b.w > 0 \/ b.h > 0

nonZeroBounds(b) == b.w > 0 /\ b.h > 0

defaultStates == [enabled |-> TRUE, visible |-> TRUE, focused |-> FALSE, checked |-> FALSE]

Has(obj, k) == k \in DOMAIN obj

\* String.prototype.trim, on the strings the payloads of this model carry.
Trim(s) ==
  CASE s = " " -> ""
    [] s = " Email " -> "Email"
    [] OTHER -> s

\* toBool(value, defaultValue) of a field that is absent or a boolean.
toBool(obj, k, defaultValue) == IF Has(obj, k) THEN obj[k] ELSE defaultValue

\* toNumber(value, defaultValue) of a field that is absent or a finite number.
toNumber(obj, k, defaultValue) == IF Has(obj, k) THEN obj[k] ELSE defaultValue

(***************************************************************************)
(* The iOS parser.                                                         *)
(***************************************************************************)
\* String.prototype.toLowerCase on the raw roles of this model.
LowerCase(s) ==
  CASE s = "AXButton" -> "axbutton"
    [] s = "AXTextField" -> "axtextfield"
    [] s = "AXStaticText" -> "axstatictext"
    [] s = "AXLink" -> "axlink"
    [] s = "Switch Button" -> "switch button"
    [] s = "Static Text" -> "static text"
    [] OTHER -> s

\* String.prototype.includes on the lowercased roles of this model.
Includes(s, needle) ==
  <<s, needle>> \in { <<"axbutton", "button">>, <<"axtextfield", "textfield">>,
                      <<"axlink", "link">>, <<"switch button", "switch">>,
                      <<"switch button", "button">> }

\* lower.replace(/\s+/g, "_")
SpacesToUnderscore(s) ==
  CASE s = "static text" -> "static_text"
    [] s = "switch button" -> "switch_button"
    [] s = " " -> "_"
    [] OTHER -> s

mapIOSRole(rawRole) ==
  LET lower == LowerCase(Trim(rawRole)) IN
  IF Includes(lower, "button") THEN "button"
  ELSE IF Includes(lower, "textfield") \/ Includes(lower, "text field")
          \/ Includes(lower, "textview") \/ Includes(lower, "text view") THEN "textbox"
  ELSE IF Includes(lower, "link") THEN "link"
  ELSE IF Includes(lower, "checkbox") THEN "checkbox"
  ELSE IF Includes(lower, "switch") THEN "switch"
  ELSE IF SpacesToUnderscore(lower) # "" THEN SpacesToUnderscore(lower)
  ELSE "unknown"

\* The rectangle read from the picked frame / bounds / rect object.
BoundsFrom(pick) ==
  LET x == toNumber(pick, "x", toNumber(pick, "left", 0))
      y == toNumber(pick, "y", toNumber(pick, "top", 0))
      w == toNumber(pick, "w", toNumber(pick, "width", toNumber(pick, "right", 0) - x))
      h == toNumber(pick, "h", toNumber(pick, "height", toNumber(pick, "bottom", 0) - y))
  IN [x |-> x, y |-> y, w |-> w, h |-> h]

extractBounds(obj) ==
  IF Has(obj, "frame") THEN BoundsFrom(obj["frame"])
  ELSE IF Has(obj, "bounds") THEN BoundsFrom(obj["bounds"])
  ELSE IF Has(obj, "rect") THEN BoundsFrom(obj["rect"])
  ELSE [x |-> 0, y |-> 0, w |-> 0, h |-> 0]

RECURSIVE getFirstString(_, _)
getFirstString(obj, keys) ==
  IF keys = <<>> THEN Null
  ELSE IF Has(obj, Head(keys)) /\ Trim(obj[Head(keys)]) # ""
       THEN obj[Head(keys)]
       ELSE getFirstString(obj, Tail(keys))

\* a ?? b
Coalesce(a, b) == IF a # Null THEN a ELSE b

\* maybeCanonicalIOS: <<el>> with the pre-canonical element of a node, or <<>>
\* (the code's null) for a node with no role, name, label and id.
maybeCanonicalIOS(obj) ==
  LET roleRaw == Coalesce(
                   getFirstString(obj, <<"role", "AXRole", "type", "elementType", "class", "AXElementType">>),
                   IF Has(obj, "traits") THEN obj["traits"] ELSE Null)
      name == getFirstString(obj, <<"name", "label", "AXLabel", "title", "identifier", "valueLabel">>)
      id == getFirstString(obj, <<"id", "identifier", "AXIdentifier", "accessibilityIdentifier">>)
      label == getFirstString(obj, <<"label", "AXLabel", "title", "accessibilityLabel", "name">>)
      value == getFirstString(obj, <<"value", "AXValue", "valueLabel">>)
  IN IF (roleRaw = Null \/ roleRaw = "") /\ name = Null /\ label = Null /\ id = Null
     THEN <<>>
     ELSE << [ role |-> IF roleRaw # Null /\ roleRaw # "" THEN mapIOSRole(roleRaw) ELSE "unknown",
            name |-> Trim(Coalesce(name, Coalesce(label, Coalesce(id, "")))),
            value |-> value,
            bounds |-> extractBounds(obj),
            states |-> [ enabled |-> toBool(obj, "enabled", TRUE),
                         visible |-> toBool(obj, "visible", TRUE),
                         focused |-> toBool(obj, "focused", FALSE),
                         checked |-> toBool(obj, "checked", toBool(obj, "selected", FALSE)) ],
            selectors |-> [ ios |-> [id |-> id, label |-> label],
                            android |-> [resource_id |-> Null, content_desc |-> Null, class |-> Null] ] ] >>

\* The keys walkAny descends into, in the order it tries them.
ChildKeys == <<"children", "elements", "nodes", "subviews", "descendants">>

(***************************************************************************)
(* A raw iOS payload is a JSON value.  The model holds it flattened: nodes *)
(* 1..n, node i being the object obj[i], held in the array that its parent *)
(* object parent[i] carries under the key key[i]; parent 0 is the          *)
(* top-level array.  The items of one array are in increasing node number, *)
(* and parent[i] < i.                                                      *)
(***************************************************************************)
RootKey == "$"

\* The items of the array that object p holds under key k (p = 0: the
\* top-level array), in array order.
ArrayItems(r, p, k) ==
  SelectSeq([i \in 1..Len(r.obj) |-> i], LAMBDA i : r.parent[i] = p /\ r.key[i] = k)

RECURSIVE walkAnyObject(_, _)
RECURSIVE walkAnyArray(_, _)
\* walkAny calling the visitor after the descent instead of before it.
walkAnyObjectPostOrder(r, i) ==
  Concat([c \in 1..Len(ChildKeys) |-> walkAnyArray(r, ArrayItems(r, i, ChildKeys[c]))]) \o <<i>>

\* walkAny on an object: the visitor sees the object, then each child key
\* present is walked, in ChildKeys order.  The result is the sequence of
\* objects handed to the visitor.
walkAnyObject(r, i) ==
  <<i>> \o Concat([c \in 1..Len(ChildKeys) |-> walkAnyArray(r, ArrayItems(r, i, ChildKeys[c]))])
\* walkAny on an array: each item in turn.
walkAnyArray(r, items) ==
  IF items = <<>> THEN <<>>
  ELSE walkAnyObject(r, Head(items)) \o walkAnyArray(r, Tail(items))

walkAny(r) == walkAnyArray(r, ArrayItems(r, 0, RootKey))

\* The candidates pushed by the visitor of parseIOSAxeDescribeUI.
IOSCandidates(objs) ==
  Concat([k \in 1..Len(objs) |-> maybeCanonicalIOS(objs[k])])

\* The de-duplication key of parseIOSAxeDescribeUI, a string.
DedupKey(e) ==
  e.role \o "|" \o e.name \o "|" \o Coalesce(e.selectors.ios.id, "") \o "|"
    \o ToString(e.bounds.x) \o "," \o ToString(e.bounds.y) \o ","
    \o ToString(e.bounds.w) \o "," \o ToString(e.bounds.h)

RECURSIVE DedupFrom(_, _)
DedupFrom(cands, seen) ==
  IF cands = <<>> THEN <<>>
  ELSE IF DedupKey(Head(cands)) \in seen
       THEN DedupFrom(Tail(cands), seen)
       ELSE <<Head(cands)>> \o DedupFrom(Tail(cands), seen \cup {DedupKey(Head(cands))})

IOSFinish(cands, interactive) ==
  LET deduped == DedupFrom(cands, {})
  IN IF ~interactive THEN deduped
     ELSE SelectSeq(deduped, LAMBDA e : e.role \in INTERACTABLE_ROLES /\ nonZeroBounds(e.bounds))

parseIOSAxeDescribeUI(r, interactive) ==
  LET visited == walkAny(r)
  IN IOSFinish(IOSCandidates([k \in 1..Len(visited) |-> r.obj[visited[k]]]), interactive)


(***************************************************************************)
(* The Android parser.  The XML text is held as the sequence of its tags;  *)
(* a tag is its name and its attributes (attribute name -> value).         *)
(***************************************************************************)
\* undefined for an attribute the tag does not carry
Attr(attrs, k) == IF Has(attrs, k) THEN attrs[k] ELSE Null

\* bounds.match(/^\[(\d+),(\d+)\]\[(\d+),(\d+)\]$/) on the bounds strings of
\* this model: <<l, t, r, b>>, or <<>> when the string does not match.
BoundsMatch(s) ==
  CASE s = "[0,0][100,50]" -> <<0, 0, 100, 50>>
    [] s = "[0,60][200,100]" -> <<0, 60, 200, 100>>
    [] s = "[10,10][10,40]" -> <<10, 10, 10, 40>>
    [] s = "[50,50][20,90]" -> <<50, 50, 20, 90>>
    [] OTHER -> <<>>

parseAndroidBounds(s) ==
  LET m == BoundsMatch(s)
  IN IF m = <<>> THEN [x |-> 0, y |-> 0, w |-> 0, h |-> 0]
     ELSE [x |-> m[1], y |-> m[2], w |-> Max(0, m[3] - m[1]), h |-> Max(0, m[4] - m[2])]

mapAndroidRole(className) ==
  CASE className = "android.widget.Button" -> "button"
    [] className = "android.widget.EditText" -> "textbox"
    [] className = "android.widget.CheckBox" -> "checkbox"
    [] className = "android.widget.Switch" -> "switch"
    [] OTHER -> "unknown"

\* s.split(sep).pop() on the resource ids and class names of this model.
LastSegment(s) ==
  CASE s = "com.example:id/sign_in" -> "sign_in"
    [] s = "com.example:id/email" -> "email"
    [] s = "android.widget.Button" -> "Button"
    [] s = "android.widget.EditText" -> "EditText"
    [] s = "android.widget.TextView" -> "TextView"
    [] s = "android.widget.FrameLayout" -> "FrameLayout"
    [] OTHER -> s

\* a || b on strings
OrElse(a, b) == IF a # "" THEN a ELSE b

\* attrs.k?.trim() ?? ""
TrimmedAttr(attrs, k) == IF Has(attrs, k) THEN Trim(attrs[k]) ELSE ""

AndroidInteractable(attrs) ==
  \/ Attr(attrs, "clickable") = "true"
  \/ Attr(attrs, "focusable") = "true"
  \/ mapAndroidRole(Coalesce(Attr(attrs, "class"), "")) \in INTERACTABLE_ROLES

\* The element parseAndroidUiautomatorXml builds from one <node> tag.
AndroidElement(attrs) ==
  LET className == Coalesce(Attr(attrs, "class"), "")
      text == TrimmedAttr(attrs, "text")
      contentDesc == TrimmedAttr(attrs, "content-desc")
      resourceId == TrimmedAttr(attrs, "resource-id")
      name == OrElse(text, OrElse(contentDesc,
                OrElse(IF resourceId # "" THEN LastSegment(resourceId) ELSE "",
                  OrElse(LastSegment(className), ""))))
  IN [ role |-> mapAndroidRole(className),
       name |-> name,
       value |-> Null,
       bounds |-> parseAndroidBounds(Coalesce(Attr(attrs, "bounds"), "")),
       states |-> [ enabled |-> Attr(attrs, "enabled") # "false",
                    visible |-> Attr(attrs, "visible-to-user") # "false",
                    focused |-> Attr(attrs, "focused") = "true",
                    checked |-> Attr(attrs, "checked") = "true" ],
       selectors |-> [ ios |-> [id |-> Null, label |-> Null],
                       android |-> [ resource_id |-> IF resourceId # "" THEN resourceId ELSE Null,
                                     content_desc |-> IF contentDesc # "" THEN contentDesc ELSE Null,
                                     class |-> IF className # "" THEN className ELSE Null ] ] ]

\* The regular expression /<node\b([^>]*)\/?>/g matches the opening and the
\* self-closing tags named node, in text order.
RECURSIVE parseAndroidUiautomatorXml(_, _)
parseAndroidUiautomatorXml(xml, interactive) ==
  IF xml = <<>> THEN <<>>
  ELSE LET tag == Head(xml)
           rest == parseAndroidUiautomatorXml(Tail(xml), interactive)
       IN IF tag.name # "node" THEN rest
          ELSE IF interactive /\ ~AndroidInteractable(tag.attrs) THEN rest
          ELSE IF interactive /\ ~nonZeroBounds(AndroidElement(tag.attrs).bounds) THEN rest
          ELSE <<AndroidElement(tag.attrs)>> \o rest

(***************************************************************************)
(* SnapshotBuilder.                                                        *)
(***************************************************************************)
\* assignRefs numbering the refs from 0: `e${i}`.
RefNameFromZero(i) == "e" \o ToString(i)

\* The template literal `e${i + 1}` of assignRefs, i counting from 0.
RefName(i) == "e" \o ToString(i + 1)

\* { ...element, ref }
WithRef(element, ref) == ("ref" :> ref) @@ element

\* refs[ref] = el
PutRef(refs, ref, el) == (ref :> el) @@ refs

RECURSIVE assignRefsFrom(_, _, _)
\* The loop of assignRefs from index i (0-based) on, acc being {out, refs}.
assignRefsFrom(elements, i, acc) ==
  IF i >= Len(elements) THEN acc
  ELSE LET ref == RefName(i)
           el == WithRef(elements[i + 1], ref)
       IN assignRefsFrom(elements, i + 1,
            [elements |-> Append(acc.elements, el), refs |-> PutRef(acc.refs, ref, el)])

assignRefs(elements) == assignRefsFrom(elements, 0, [elements |-> <<>>, refs |-> <<>>])

\* One line of renderTree; the names of this model need no escaping.
TreeLine(e) ==
  "@" \o e.ref \o " [" \o e.role \o "] \"" \o e.name \o "\" ("
    \o ToString(e.bounds.x) \o "," \o ToString(e.bounds.y) \o ","
    \o ToString(e.bounds.w) \o "," \o ToString(e.bounds.h) \o ")"

RECURSIVE JoinLines(_)
JoinLines(lines) ==
  IF lines = <<>> THEN ""
  ELSE IF Len(lines) = 1 THEN lines[1]
  ELSE lines[1] \o "\n" \o JoinLines(Tail(lines))

renderTree(elements) == JoinLines([k \in 1..Len(elements) |-> TreeLine(elements[k])])

\* buildSnapshot heading the rendered tree with the snapshot id.
buildSnapshotStamped(plat, deviceId, appId, elements, uuid, takenAt) ==
  LET assigned == assignRefs(elements)
  IN [ snapshot_id |-> uuid,
       taken_at |-> takenAt,
       platform |-> plat,
       device_id |-> deviceId,
       app_id |-> appId,
       tree |-> uuid \o "\n" \o renderTree(assigned.elements),
       elements |-> assigned.elements,
       refs |-> assigned.refs ]

\* uuid and takenAt stand for crypto.randomUUID() and new Date().
buildSnapshot(plat, deviceId, appId, elements, uuid, takenAt) ==
  LET assigned == assignRefs(elements)
  IN [ snapshot_id |-> uuid,
       taken_at |-> takenAt,
       platform |-> plat,
       device_id |-> deviceId,
       app_id |-> appId,
       tree |-> renderTree(assigned.elements),
       elements |-> assigned.elements,
       refs |-> assigned.refs ]


(***************************************************************************)
(* The payloads the snapshot specification draws from.                     *)
(***************************************************************************)
\* Raw iOS objects.  The button is the one of test/vnext.test.ts; the others
\* use the other key namings the parser accepts; the layout node carries no
\* role, name, label or id.
IOSButton ==
  [role |-> "AXButton", label |-> "Sign in", id |-> "btnSignIn",
   frame |-> [x |-> 10, y |-> 20, width |-> 100, height |-> 40]]

IOSTextField ==
  [AXRole |-> "AXTextField", identifier |-> " Email ", enabled |-> FALSE,
   bounds |-> [x |-> 10, y |-> 80, w |-> 200, h |-> 40]]

IOSLayout == [frame |-> [x |-> 0, y |-> 0, w |-> 320, h |-> 480], title |-> " "]

IOSStaticText ==
  [type |-> "AXStaticText", AXLabel |-> "Welcome",
   rect |-> [left |-> 10, top |-> 140, right |-> 310, bottom |-> 160]]

IOSLink == [elementType |-> "AXLink", name |-> "Forgot password", selected |-> TRUE]

IOSSwitch == [traits |-> "Switch Button", accessibilityIdentifier |-> "swRemember"]

\* The objects node number i of a payload is drawn from: one of its own, or,
\* for the first three nodes, the button, so that payloads repeat an element
\* and hold layout nodes.
IOSObjectsAt(i) ==
  (IF i <= 3 THEN { IOSButton } ELSE {})
    \cup { CASE i = 1 -> IOSTextField
             [] i = 2 -> IOSLayout
             [] i = 3 -> IOSStaticText
             [] i = 4 -> IOSLink
             [] OTHER -> IOSSwitch }

\* Where node number i may hang: in the top-level array, or under any key
\* of an earlier node.
IOSPlacesAt(i) ==
  {<<0, RootKey>>} \cup { <<q, ChildKeys[c]>> : q \in 1..(i - 1), c \in 1..Len(ChildKeys) }

RECURSIVE IOSPayloadsOfSize(_)
IOSPayloadsOfSize(n) ==
  IF n = 0 THEN { [obj |-> <<>>, parent |-> <<>>, key |-> <<>>] }
  ELSE { [obj |-> Append(r.obj, o), parent |-> Append(r.parent, pl[1]), key |-> Append(r.key, pl[2])] :
           r \in IOSPayloadsOfSize(n - 1), o \in IOSObjectsAt(n), pl \in IOSPlacesAt(n) }

IOSPayloads == UNION { IOSPayloadsOfSize(n) : n \in 0..MaxNodes }

AndroidTags ==
  { [name |-> "hierarchy", attrs |-> <<>>],
    [name |-> "node",
     attrs |-> ("text" :> "Sign in") @@ ("resource-id" :> "com.example:id/sign_in")
               @@ ("class" :> "android.widget.Button") @@ ("clickable" :> "true")
               @@ ("bounds" :> "[0,0][100,50]")],
    [name |-> "node",
     attrs |-> ("text" :> "") @@ ("content-desc" :> "Email") @@ ("resource-id" :> "com.example:id/email")
               @@ ("class" :> "android.widget.EditText") @@ ("focused" :> "true")
               @@ ("bounds" :> "[10,10][10,40]")],
    [name |-> "node",
     attrs |-> ("class" :> "android.widget.TextView") @@ ("enabled" :> "false")
               @@ ("bounds" :> "0,0,10,10")],
    [name |-> "node",
     attrs |-> ("class" :> "android.widget.FrameLayout") @@ ("focusable" :> "true")
               @@ ("bounds" :> "[0,60][200,100]")] }

AndroidPayloads == UNION { [1..n -> AndroidTags] : n \in 0..MaxNodes }

SnapshotIds == {"uuid-1", "uuid-2"}
DeviceIds == {"UDID-123"}

NoSnapshot ==
  [ snapshot_id |-> Null, taken_at |-> 0, platform |-> Null, device_id |-> Null,
    app_id |-> Null, tree |-> "", elements |-> <<>>, refs |-> <<>> ]

SnapIdle ==
  /\ platform = Null
  /\ raw = <<>>
  /\ interactiveOnly = FALSE
  /\ parsed = <<>>
  /\ snapshot = NoSnapshot
  /\ snapPc = "idle"

(***************************************************************************)
(* The snapshot command: parse the payload, then build the snapshot.       *)
(***************************************************************************)
InitSnapshotVars ==
  /\ platform \in {"ios", "android"}
  /\ raw \in IF platform = "ios" THEN IOSPayloads ELSE AndroidPayloads
  /\ interactiveOnly = FALSE
  /\ parsed = <<>>
  /\ snapshot = NoSnapshot
  /\ snapPc = "raw"

ParseIOS ==
  /\ snapPc = "raw"
  /\ platform = "ios"
  /\ \E io \in BOOLEAN :
       /\ interactiveOnly' = io
       /\ parsed' = parseIOSAxeDescribeUI(raw, io)
  /\ snapPc' = "parsed"
  /\ UNCHANGED <<platform, raw, snapshot>>

ParseAndroid ==
  /\ snapPc = "raw"
  /\ platform = "android"
  /\ \E io \in BOOLEAN :
       /\ interactiveOnly' = io
       /\ parsed' = parseAndroidUiautomatorXml(raw, io)
  /\ snapPc' = "parsed"
  /\ UNCHANGED <<platform, raw, snapshot>>

BuildSnapshot ==
  /\ snapPc = "parsed"
  /\ \E uuid \in SnapshotIds, dev \in DeviceIds :
       snapshot' = buildSnapshot(platform, dev, Null, parsed, uuid, 1)
  /\ snapPc' = "built"
  /\ UNCHANGED <<platform, raw, interactiveOnly, parsed>>

\* The snapshot command run again on the same payload with the same flag,
\* at a later time.
Resnapshot ==
  /\ snapPc = "built"
  /\ snapshot.taken_at <= MaxRetakes
  /\ \E uuid \in SnapshotIds, dev \in DeviceIds :
       LET again == IF platform = "ios" THEN parseIOSAxeDescribeUI(raw, interactiveOnly)
                    ELSE parseAndroidUiautomatorXml(raw, interactiveOnly)
       IN /\ parsed' = again
          /\ snapshot' = buildSnapshot(platform, dev, Null, again, uuid, snapshot.taken_at + 1)
  /\ UNCHANGED <<platform, raw, interactiveOnly, snapPc>>


(***************************************************************************)
(* Retention (gc.ts).  A run directory on disk is                          *)
(*   [exists, nameTime, mtime, result, size]                               *)
(* nameTime: the time its name encodes (NoDate when the name does not      *)
(* parse), result: what its result.json holds, size: its bytes.            *)
(***************************************************************************)
\* parseStartedAtFromDirName returning null
NoDate == 0 - 1

DayMs == 24 * 60 * 60 * 1000

\* readRunOk: "true" | "false" for a result.json with a boolean ok, else
\* "null" (no file, no JSON, ok not a boolean).
readRunOk(d) ==
  IF ~d.exists THEN "null"
  ELSE CASE d.result = "ok_true" -> "true"
         [] d.result = "ok_false" -> "false"
         [] OTHER -> "null"

\* dirSizeBytes: readdir of a missing directory is caught and gives 0.
dirSizeBytes(d) == IF d.exists THEN d.size ELSE 0

\* The body of the loop of listRuns for the entry named name.
RunInfoOf(name, d) ==
  LET fromName == d.nameTime
      statOk == d.exists
  IN [ dir |-> name,
       startedAt |-> IF fromName # NoDate THEN fromName ELSE IF statOk THEN d.mtime ELSE 0,
       startedAtSource |-> IF fromName # NoDate THEN "name" ELSE "mtime",
       mtimeMs |-> IF statOk THEN d.mtime ELSE 0,
       ok |-> readRunOk(d),
       sizeBytes |-> dirSizeBytes(d) ]

\* Array.prototype.sort is stable: x goes after every element that does not
\* compare greater.  sign = 1 sorts by startedAt ascending, -1 descending.
RECURSIVE InsertStable(_, _, _)
InsertStable(sorted, x, sign) ==
  IF sorted = <<>> THEN <<x>>
  ELSE IF sign * Head(sorted).startedAt > sign * x.startedAt
       THEN <<x>> \o sorted
       ELSE <<Head(sorted)>> \o InsertStable(Tail(sorted), x, sign)

RECURSIVE SortStable(_, _)
SortStable(rs, sign) ==
  IF rs = <<>> THEN <<>>
  ELSE InsertStable(SortStable(SubSeq(rs, 1, Len(rs) - 1), sign), rs[Len(rs)], sign)

\* out.sort((a, b) => b.startedAt - a.startedAt)
SortNewestFirst(rs) == SortStable(rs, 0 - 1)

\* Oldest first, runs that started at the same time in reverse listing order.
SortOldestTiesReversed(rs) == SortStable([k \in 1..Len(rs) |-> rs[Len(rs) + 1 - k]], 1)

\* [...candidates].sort((a, b) => a.startedAt - b.startedAt)
SortOldestFirst(rs) == SortStable(rs, 1)

RECURSIVE SumSizes(_)
SumSizes(rs) == IF rs = <<>> THEN 0 ELSE Head(rs).sizeBytes + SumSizes(Tail(rs))

\* Keeping the keepLast last entries of the listing, the oldest runs.
SliceLast(rs, k) == SubSeq(rs, IF k < Len(rs) THEN Len(rs) - k + 1 ELSE 1, Len(rs))

\* runs.slice(0, keepLast), keepLast a count (>= 0)
SliceFirst(rs, k) == SubSeq(rs, 1, IF k < Len(rs) THEN k ELSE Len(rs))

DirsOf(rs) == {rs[i].dir : i \in 1..Len(rs)}

isFailure(r) == r.ok = "false" \/ r.ok = "null"

\* Rule 2 with the limit itself excluded (< for <=).
FailureKeptStrict(r, keepFailureDays, nowMs) ==
  /\ isFailure(r)
  /\ nowMs - r.startedAt < keepFailureDays * DayMs

\* Rule 2: a failed or unknown run young enough.
FailureKept(r, keepFailureDays, nowMs) ==
  /\ isFailure(r)
  /\ nowMs - r.startedAt <= keepFailureDays * DayMs

\* keepSet of planGC
KeepSet(rs, keepLast, keepFailureDays, nowMs) ==
  DirsOf(SliceFirst(rs, keepLast))
    \cup {rs[i].dir : i \in {j \in 1..Len(rs) : FailureKept(rs[j], keepFailureDays, nowMs)}}

\* Counting a deleted run as one byte.
PushDeletedAsOne(acc, r) ==
  [deletePlan |-> Append(acc.deletePlan, r), afterBytes |-> acc.afterBytes - 1]

\* deletePlan.push(r); afterBytes -= r.sizeBytes
PushDeleted(acc, r) ==
  [deletePlan |-> Append(acc.deletePlan, r), afterBytes |-> acc.afterBytes - r.sizeBytes]

RECURSIVE DeleteLoopAll(_, _, _)
\* The loop of deleteOldestFirst without its break: every candidate goes.
DeleteLoopAll(sorted, acc, maxBytes) ==
  IF sorted = <<>> THEN acc
  ELSE DeleteLoopAll(Tail(sorted), PushDeleted(acc, Head(sorted)), maxBytes)

RECURSIVE DeleteLoop(_, _, _)
\* The loop of deleteOldestFirst over the sorted candidates; acc holds
\* deletePlan and afterBytes.
DeleteLoop(sorted, acc, maxBytes) ==
  IF sorted = <<>> THEN acc
  ELSE IF acc.afterBytes <= maxBytes THEN acc
  ELSE DeleteLoop(Tail(sorted), PushDeleted(acc, Head(sorted)), maxBytes)

deleteOldestFirst(candidates, acc, maxBytes) ==
  DeleteLoop(SortOldestFirst(candidates), acc, maxBytes)

\* Every run a candidate of the first pass, kept or not.
DeletableAll(rs, keepSet) == rs

\* deletable: runs.filter((r) => !keepSet.has(r.dir))
Deletable(rs, keepSet) == SelectSeq(rs, LAMBDA r : r.dir \notin keepSet)

\* The kept set never given up.
NeverOverBudget(afterBytes, maxBytes) == FALSE

\* if (afterBytes > maxBytes): the kept set is deleted from as well
StillOverBudget(afterBytes, maxBytes) == afterBytes > maxBytes

\* planGC on the listing rs (newest first)
planGC(rs, keepLast, keepFailureDays, maxBytes, nowMs) ==
  LET totalBytes == SumSizes(rs)
      keepSet == KeepSet(rs, keepLast, keepFailureDays, nowMs)
      keep == SelectSeq(rs, LAMBDA r : r.dir \in keepSet)
      deletable == Deletable(rs, keepSet)
      first == deleteOldestFirst(deletable, [deletePlan |-> <<>>, afterBytes |-> totalBytes], maxBytes)
      remainingKeep == SelectSeq(keep, LAMBDA r : r.dir \notin DirsOf(first.deletePlan))
      final == IF StillOverBudget(first.afterBytes, maxBytes)
               THEN deleteOldestFirst(remainingKeep, first, maxBytes)
               ELSE first
      keepAfter == SelectSeq(rs, LAMBDA r : r.dir \notin DirsOf(final.deletePlan))
  IN [ keepLast |-> keepLast,
       keepFailureDays |-> keepFailureDays,
       maxBytes |-> maxBytes,
       totalRuns |-> Len(rs),
       totalBytes |-> totalBytes,
       keep |-> keepAfter,
       delete |-> final.deletePlan,
       afterBytes |-> final.afterBytes ]


(***************************************************************************)
(* The gc command: listRuns, planGC, executeGC, and the other processes    *)
(* that work on the run directories meanwhile.                             *)
(***************************************************************************)
\* Date.now() of the planner.
Now0 == 3 * DayMs

\* Start times around the failure-retention limit of one day, and now.
StartTimes == {Now0 - DayMs - 1, Now0 - DayMs, Now0}

ResultFiles == {"ok_true", "ok_false", "missing"}

\* The bytes of the run directory number i: sizes differ from run to run.
SizeOfRun(i) == IF i % 2 = 1 THEN 1 ELSE 2

\* A run directory as createRunDir and a finished command leave it: its
\* name encodes the start time; every third one has a name that does not
\* parse, so that its start time is its mtime.
RunDirsFor(i) ==
  { [exists |-> TRUE,
     nameTime |-> IF i % 3 = 0 THEN NoDate ELSE t,
     mtime |-> IF i % 3 = 0 THEN t ELSE t + 1,
     result |-> res,
     size |-> SizeOfRun(i)] : t \in StartTimes, res \in ResultFiles }

Absent == [exists |-> FALSE, nameTime |-> NoDate, mtime |-> 0, result |-> "missing", size |-> 0]

\* What is left of a name once its directory is removed: the name only.
Removed(d) == [exists |-> FALSE, nameTime |-> d.nameTime, mtime |-> 0, result |-> "missing", size |-> 0]

\* The disks of the planner specification: n <= MaxRuns run directories.
PlanDisks ==
  LET Runs[n \in 0..MaxRuns] ==
        IF n = 0 THEN { <<>> }
        ELSE { Append(r, d) : r \in Runs[n - 1], d \in RunDirsFor(n) }
  IN UNION { { [i \in 1..MaxRuns |-> IF i <= n THEN r[i] ELSE Absent] : r \in Runs[n] }
             : n \in 0..MaxRuns }

PlanPolicies ==
  [ keepLast : 0..MaxRuns, keepFailureDays : {0, 1}, maxBytes : 0..(MaxRuns + 1) \cup {2 * MaxRuns} ]

NoPlan ==
  [ keepLast |-> 0, keepFailureDays |-> 0, maxBytes |-> 0, totalRuns |-> 0,
    totalBytes |-> 0, keep |-> <<>>, delete |-> <<>>, afterBytes |-> 0 ]

NoPolicy == [keepLast |-> 0, keepFailureDays |-> 0, maxBytes |-> 0]

NoStat == [exists |-> FALSE, mtimeMs |-> 0]

GCIdle ==
  /\ fs = <<>>
  /\ now = 0
  /\ listing = <<>>
  /\ runs = <<>>
  /\ policy = NoPolicy
  /\ dryRun = FALSE
  /\ plan = NoPlan
  /\ idx = 0
  /\ st = NoStat
  /\ gcPc = "idle"
  /\ envSteps = 0

GCStart ==
  /\ now = Now0
  /\ listing = <<>>
  /\ runs = <<>>
  /\ policy = NoPolicy
  /\ dryRun = FALSE
  /\ plan = NoPlan
  /\ idx = 0
  /\ st = NoStat
  /\ gcPc = "readdir"
  /\ envSteps = 0

\* listRuns: fs.readdir(runsRoot), the directories among the entries.
ListReaddir ==
  /\ gcPc = "readdir"
  /\ listing' = SelectSeq([i \in 1..Len(fs) |-> i], LAMBDA i : fs[i].exists)
  /\ gcPc' = "list"
  /\ UNCHANGED <<fs, now, runs, policy, dryRun, plan, idx, st, envSteps>>

\* listRuns: one round of the loop (stat, readRunOk, dirSizeBytes, push).
ListEntry ==
  /\ gcPc = "list"
  /\ Len(runs) < Len(listing)
  /\ LET name == listing[Len(runs) + 1]
     IN runs' = Append(runs, RunInfoOf(name, fs[name]))
  /\ UNCHANGED <<fs, now, listing, policy, dryRun, plan, idx, st, gcPc, envSteps>>

\* listRuns returns the sorted listing; cmdGC's options are read and planGC
\* computes the plan.
PlanWith(policies, dries) ==
  /\ gcPc = "list"
  /\ Len(runs) = Len(listing)
  /\ \E p \in policies, dry \in dries :
       /\ policy' = p
       /\ dryRun' = dry
       /\ plan' = planGC(SortNewestFirst(runs), p.keepLast, p.keepFailureDays, p.maxBytes, now)
  /\ idx' = 0
  /\ gcPc' = "exec"
  /\ UNCHANGED <<fs, now, listing, runs, st, envSteps>>

\* gc --dry-run under every policy
PlanStep == PlanWith(PlanPolicies, {TRUE})

\* The executor going on whatever dryRun says.
ReturnsNever(dry) == FALSE

\* executeGC: if (dryRun) return
ReturnsAtOnce(dry) == dry

ExecDryRun ==
  /\ gcPc = "exec"
  /\ ReturnsAtOnce(dryRun)
  /\ gcPc' = "done"
  /\ UNCHANGED <<fs, now, listing, runs, policy, dryRun, plan, idx, st, envSteps>>

\* fs.stat(r.dir).catch(() => null)
StatOf(d) == [exists |-> d.exists, mtimeMs |-> IF d.exists THEN d.mtime ELSE 0]

\* The guard of fs.rm without the comparison of the modification times.
MayRemoveUnchecked(r, stat) == stat.exists

\* The guard of fs.rm never letting an entry through.
MayRemoveNever(r, stat) == FALSE

\* The guard of fs.rm: the entry was found and, when an mtime was recorded
\* for it, the mtime is unchanged.
MayRemove(r, stat) ==
  /\ stat.exists
  /\ ~(r.mtimeMs # 0 /\ stat.mtimeMs # r.mtimeMs)

\* executeGC: the re-stat of the entry idx of plan.delete and the two
\* continue statements.
ExecStat ==
  /\ gcPc = "exec"
  /\ ~ReturnsAtOnce(dryRun)
  /\ idx < Len(plan.delete)
  /\ LET r == plan.delete[idx + 1]
         stat == StatOf(fs[r.dir])
     IN /\ st' = stat
        /\ IF MayRemove(r, stat)
           THEN gcPc' = "rm" /\ idx' = idx
           ELSE gcPc' = "exec" /\ idx' = idx + 1
  /\ UNCHANGED <<fs, now, listing, runs, policy, dryRun, plan, envSteps>>

\* fs.rm given the newest kept directory, when the plan keeps one.
RmPathOfKeep(pl, i) == IF pl.keep # <<>> THEN pl.keep[1].dir ELSE pl.delete[i + 1].dir

\* The path handed to fs.rm: r.dir of the current entry.
RmPath(pl, i) == pl.delete[i + 1].dir

\* fs.rm(r.dir, {recursive: true, force: true})
ExecRm ==
  /\ gcPc = "rm"
  /\ fs' = [fs EXCEPT ![RmPath(plan, idx)] = Removed(@)]
  /\ idx' = idx + 1
  /\ gcPc' = "exec"
  /\ UNCHANGED <<now, listing, runs, policy, dryRun, plan, st, envSteps>>

ExecDone ==
  /\ gcPc = "exec"
  /\ ~ReturnsAtOnce(dryRun)
  /\ idx >= Len(plan.delete)
  /\ gcPc' = "done"
  /\ UNCHANGED <<fs, now, listing, runs, policy, dryRun, plan, idx, st, envSteps>>

\* Another process: a fresh modification time for what it writes.
FreshMtime == Now0 + envSteps + 1

EnvActive == gcPc \in {"readdir", "list", "exec", "rm"} /\ envSteps < MaxEnvSteps

\* Another process writes into a run directory.
EnvTouch ==
  /\ EnvActive
  /\ \E d \in 1..Len(fs) :
       /\ fs[d].exists
       /\ fs' = [fs EXCEPT ![d].mtime = FreshMtime]
  /\ envSteps' = envSteps + 1
  /\ UNCHANGED <<now, listing, runs, policy, dryRun, plan, idx, st, gcPc>>

\* Another process removes a run directory.
EnvRemove ==
  /\ EnvActive
  /\ \E d \in 1..Len(fs) :
       /\ fs[d].exists
       /\ fs' = [fs EXCEPT ![d] = Removed(fs[d])]
  /\ envSteps' = envSteps + 1
  /\ UNCHANGED <<now, listing, runs, policy, dryRun, plan, idx, st, gcPc>>

\* Another process creates a run directory (createRunDir): empty, no
\* result.json yet.
EnvCreate ==
  /\ EnvActive
  /\ \E d \in 1..Len(fs) :
       /\ ~fs[d].exists
       /\ fs' = [fs EXCEPT ![d] = [exists |-> TRUE, nameTime |-> fs[d].nameTime,
                                   mtime |-> FreshMtime, result |-> "missing", size |-> 0]]
  /\ envSteps' = envSteps + 1
  /\ UNCHANGED <<now, listing, runs, policy, dryRun, plan, idx, st, gcPc>>


\* The disk of the executor specification: MaxExecDirs finished, successful
\* runs of one byte each, started one after the other more than a day ago.
ExecDisk ==
  [ i \in 1..MaxExecDirs |->
      [exists |-> TRUE, nameTime |-> Now0 - 2 * DayMs + i, mtime |-> Now0 - 2 * DayMs + i + 1,
       result |-> "ok_true", size |-> 1] ]

ExecPolicies == [ keepLast : {0, 1}, keepFailureDays : {0}, maxBytes : {0, 1} ]

PlanExec == PlanWith(ExecPolicies, BOOLEAN)

(***************************************************************************)
(* Properties of the snapshot subsystem.                                   *)
(***************************************************************************)
\* The ref keys e1, e2, ... written out.
RefKeys == <<"e1", "e2", "e3", "e4", "e5", "e6", "e7", "e8">>

\* C1: a built snapshot has as many elements as the parser returned; its
\* refs map has exactly the keys e1..en; refs[e<i>] is the element at
\* position i, whose ref is e<i>; no two elements share a ref.
C1_RefsInverseIndex ==
  snapPc = "built" =>
    LET els == snapshot.elements
        n == Len(parsed)
    IN /\ Len(els) = n
       /\ DOMAIN snapshot.refs = {RefKeys[i] : i \in 1..n}
       /\ \A i \in 1..n : els[i].ref = RefKeys[i] /\ snapshot.refs[RefKeys[i]] = els[i]
       /\ \A i, j \in 1..n : els[i].ref = els[j].ref => i = j
       /\ \A k \in DOMAIN snapshot.refs :
            Cardinality({i \in 1..n : els[i].ref = k}) = 1

\* C1 witness: a snapshot of three elements, two of them equal but for the ref.
C1_Witness ==
  /\ snapPc = "built"
  /\ Len(snapshot.elements) = 3
  /\ parsed[1] = parsed[2]

\* The place of node i in the payload: from the top-level array down, the
\* rank of the key and the position in the array at each level.
KeyRank(k) == IF k = RootKey THEN 0 ELSE CHOOSE c \in 1..Len(ChildKeys) : ChildKeys[c] = k

RECURSIVE PathOf(_, _)
PathOf(r, i) ==
  IF r.parent[i] = 0 THEN << <<0, i>> >>
  ELSE Append(PathOf(r, r.parent[i]), <<KeyRank(r.key[i]), i>>)

\* p comes before q in depth-first pre-order: p is a proper prefix of q, or
\* at the first difference p has the earlier key, or the same key and the
\* earlier array position.
RECURSIVE PathBefore(_, _)
PathBefore(p, q) ==
  IF p = <<>> THEN q # <<>>
  ELSE IF q = <<>> THEN FALSE
  ELSE IF Head(p) = Head(q) THEN PathBefore(Tail(p), Tail(q))
  ELSE \/ Head(p)[1] < Head(q)[1]
       \/ Head(p)[1] = Head(q)[1] /\ Head(p)[2] < Head(q)[2]

\* The nodes of the payload in depth-first pre-order.
PreOrder(r) ==
  LET n == Len(r.obj)
      before(i) == {j \in 1..n : PathBefore(PathOf(r, j), PathOf(r, i))}
  IN [k \in 1..n |-> CHOOSE i \in 1..n : Cardinality(before(i)) = k - 1]

\* The <node> tags of the XML that the Android parser keeps, by position.
AndroidKept(xml, interactive) ==
  { i \in 1..Len(xml) :
      /\ xml[i].name = "node"
      /\ interactive => /\ AndroidInteractable(xml[i].attrs)
                        /\ nonZeroBounds(AndroidElement(xml[i].attrs).bounds) }

\* The k-th smallest member of a set of numbers.
NthOf(S, k) == CHOOSE i \in S : Cardinality({j \in S : j < i}) = k - 1

\* C2: the iOS parser's output is the surviving nodes in depth-first
\* pre-order; the Android parser's output is the kept <node> tags in text
\* order; buildSnapshot gives the k-th element of the parser's output the
\* ref e<k> and changes no other field.
C2_OrderPreserved ==
  /\ (snapPc \in {"parsed", "built"} /\ platform = "ios") =>
       LET order == PreOrder(raw)
       IN parsed = IOSFinish(IOSCandidates([k \in 1..Len(order) |-> raw.obj[order[k]]]),
                             interactiveOnly)
  /\ (snapPc \in {"parsed", "built"} /\ platform = "android") =>
       LET kept == AndroidKept(raw, interactiveOnly)
       IN /\ Len(parsed) = Cardinality(kept)
          /\ \A k \in 1..Len(parsed) : parsed[k] = AndroidElement(raw[NthOf(kept, k)].attrs)
  /\ snapPc = "built" =>
       /\ Len(snapshot.elements) = Len(parsed)
       /\ \A k \in 1..Len(parsed) :
            /\ snapshot.elements[k].ref = RefKeys[k]
            /\ DOMAIN snapshot.elements[k] = DOMAIN parsed[k] \cup {"ref"}
            /\ \A f \in DOMAIN parsed[k] : snapshot.elements[k][f] = parsed[k][f]

\* C2 witness: a snapshot of three iOS elements whose pre-order differs from
\* the order of the node numbers (a nested node precedes a top-level one, or
\* a later key holds the earlier node).
C2_Witness ==
  /\ snapPc = "built"
  /\ platform = "ios"
  /\ Len(snapshot.elements) = 3
  /\ PreOrder(raw) # <<1, 2, 3>>
  /\ \E i, j \in 1..3 : i < j /\ raw.parent[i] = raw.parent[j] /\ raw.parent[i] # 0
                        /\ KeyRank(raw.key[i]) > KeyRank(raw.key[j])


(***************************************************************************)
(* Properties of the planner.  They speak of the listed runs by their      *)
(* position in runs (readdir order) and do not use the planner's own sort  *)
(* and keep set.                                                           *)
(***************************************************************************)
\* planGC has returned.
Planned == gcPc \in {"exec", "rm", "done"}

RunIdx == 1..Len(runs)

\* Run j comes before run i in the newest-first listing: it started later,
\* or at the same time and readdir returned it earlier.
ListedBefore(j, i) ==
  \/ runs[j].startedAt > runs[i].startedAt
  \/ runs[j].startedAt = runs[i].startedAt /\ j < i

\* Rule 1: among the keepLast newest.
Rule1(i) == Cardinality({j \in RunIdx : ListedBefore(j, i)}) < policy.keepLast

\* Rule 2: failed or unknown, and no older than keepFailureDays days.
Rule2(i) ==
  /\ runs[i].ok \in {"false", "null"}
  /\ now - runs[i].startedAt <= policy.keepFailureDays * DayMs

Protected(i) == Rule1(i) \/ Rule2(i)

InDelete(i) == \E k \in 1..Len(plan.delete) : plan.delete[k].dir = runs[i].dir

InKeep(i) == \E k \in 1..Len(plan.keep) : plan.keep[k].dir = runs[i].dir

\* The bytes of the runs at the positions S.
RECURSIVE BytesOf(_)
BytesOf(S) ==
  IF S = {} THEN 0
  ELSE LET i == CHOOSE x \in S : TRUE IN runs[i].sizeBytes + BytesOf(S \ {i})

\* The position in plan.delete of run i.
DeletePos(i) == CHOOSE k \in 1..Len(plan.delete) : plan.delete[k].dir = runs[i].dir

\* C3: a protected run is in plan.delete only if every run protected by
\* neither rule is.
C3_ProtectedLast ==
  Planned =>
    \A i \in RunIdx : (Protected(i) /\ InDelete(i)) =>
      \A j \in RunIdx : ~Protected(j) => InDelete(j)

\* C3 witness: size pressure took a protected run after the non-protected
\* ones, and left a protected run.
C3_Witness ==
  /\ Planned
  /\ \E i, j, k \in RunIdx :
       /\ Protected(i) /\ InDelete(i)
       /\ ~Protected(j) /\ InDelete(j)
       /\ Protected(k) /\ InKeep(k)

\* C4: with maxBytes >= 0 the plan ends within the budget or deletes every
\* run; when the keepLast newest runs alone exceed maxBytes, one of them is
\* deleted, and the protected runs deleted are the oldest of the protected.
C4_BudgetMet ==
  (Planned /\ policy.maxBytes >= 0) =>
    /\ plan.afterBytes <= policy.maxBytes \/ \A i \in RunIdx : InDelete(i)
    /\ BytesOf({i \in RunIdx : Rule1(i)}) > policy.maxBytes =>
         /\ \E i \in RunIdx : Rule1(i) /\ InDelete(i)
         /\ \A i, j \in RunIdx :
              (Protected(i) /\ InDelete(i) /\ Protected(j) /\ InKeep(j))
                => runs[i].startedAt <= runs[j].startedAt

\* C4 witness: the keepLast newest runs exceed a positive budget and the
\* plan keeps a part of them within it.
C4_Witness ==
  /\ Planned
  /\ policy.maxBytes > 0
  /\ BytesOf({i \in RunIdx : Rule1(i)}) > policy.maxBytes
  /\ \E i, j \in RunIdx : Rule1(i) /\ InDelete(i) /\ Rule1(j) /\ InKeep(j)
  /\ plan.afterBytes <= policy.maxBytes

\* plan.delete is oldest first.
DeleteOldestFirst ==
  \A a, b \in 1..Len(plan.delete) :
    a < b => plan.delete[a].startedAt <= plan.delete[b].startedAt

NoSizePressure == BytesOf(RunIdx) <= policy.maxBytes

NoFailureProtected == \A i \in RunIdx : ~Rule2(i)

\* C5 as stated: without size pressure and without failure-protected runs
\* the plan keeps exactly the keepLast newest runs and deletes every other
\* run, oldest first.
C5_Original ==
  (Planned /\ NoSizePressure /\ NoFailureProtected) =>
    /\ \A i \in RunIdx : InKeep(i) <=> Rule1(i)
    /\ \A i \in RunIdx : InDelete(i) <=> ~Rule1(i)
    /\ DeleteOldestFirst

\* The newest of the runs outside the keepLast newest; of several that
\* started at the same time, the one readdir returned last.
NewestOther(i) ==
  /\ ~Rule1(i)
  /\ \A j \in RunIdx : ~Rule1(j) =>
       \/ j = i
       \/ runs[j].startedAt < runs[i].startedAt
       \/ runs[j].startedAt = runs[i].startedAt /\ j < i

\* C5 amended: with no failure-protected run, (a) without size pressure the
\* plan deletes nothing and keeps every run; (b) while the keepLast newest
\* runs fit the budget none of them is deleted and the others are deleted
\* oldest first; (c) the plan keeps exactly the keepLast newest and deletes
\* every other run when the keepLast newest fit the budget and the newest
\* other run does not fit beside them.
C5_KeepLastNewest ==
  (Planned /\ NoFailureProtected) =>
    /\ NoSizePressure => (plan.delete = <<>> /\ \A i \in RunIdx : InKeep(i))
    /\ BytesOf({i \in RunIdx : Rule1(i)}) <= policy.maxBytes =>
         /\ \A i \in RunIdx : Rule1(i) => InKeep(i)
         /\ DeleteOldestFirst
         /\ \A i \in RunIdx :
              (NewestOther(i) /\
               BytesOf({j \in RunIdx : Rule1(j)}) + runs[i].sizeBytes > policy.maxBytes)
                => /\ \A j \in RunIdx : InKeep(j) <=> Rule1(j)
                   /\ \A j \in RunIdx : InDelete(j) <=> ~Rule1(j)

\* C5 witness: keepLast = 2 of three runs, no failure protection; the two
\* newest fit the budget, the third does not fit beside them and is deleted.
C5_Witness ==
  /\ Planned
  /\ NoFailureProtected
  /\ Len(runs) = 3
  /\ policy.keepLast = 2
  /\ BytesOf({i \in RunIdx : Rule1(i)}) <= policy.maxBytes
  /\ Len(plan.delete) = 1
  /\ Len(plan.keep) = 2

\* Deleting every non-protected run brings the bytes within the budget.
NonProtectedSuffice ==
  BytesOf({i \in RunIdx : Protected(i)}) <= policy.maxBytes

\* C6: a failed or unknown run no older than keepFailureDays days (limit
\* included) outside the keepLast newest is kept whenever deleting the
\* non-protected runs suffices, and is deleted only after every
\* non-protected run; a successful run outside the keepLast newest is not
\* protected: when it is kept, every deleted run is a non-protected run that
\* is not newer.
C6_FailureRetention ==
  Planned =>
    /\ \A i \in RunIdx : (Rule2(i) /\ ~Rule1(i)) =>
         /\ NonProtectedSuffice => InKeep(i)
         /\ InDelete(i) => \A j \in RunIdx : ~Protected(j) => InDelete(j)
    /\ \A i \in RunIdx : (runs[i].ok = "true" /\ ~Rule1(i) /\ InKeep(i)) =>
         \A j \in RunIdx : InDelete(j) =>
           (~Protected(j) /\ runs[j].startedAt <= runs[i].startedAt)

\* C6 witness: a failed run exactly keepFailureDays = 1 day old, outside the
\* keepLast newest, is kept while a newer successful run is deleted; and an
\* unknown run is kept the same way.
C6_Witness ==
  /\ Planned
  /\ policy.keepFailureDays = 1
  /\ \E i, j, k \in RunIdx :
       /\ runs[i].ok = "false" /\ ~Rule1(i) /\ now - runs[i].startedAt = DayMs /\ InKeep(i)
       /\ runs[j].ok = "true" /\ InDelete(j) /\ runs[j].startedAt > runs[i].startedAt
       /\ runs[k].ok = "null" /\ ~Rule1(k) /\ InKeep(k)

\* keep is in the order of the newest-first listing.
KeepNewestFirst ==
  \A a, b \in 1..Len(plan.keep) :
    a < b => \/ plan.keep[a].startedAt > plan.keep[b].startedAt
             \/ /\ plan.keep[a].startedAt = plan.keep[b].startedAt
                /\ plan.keep[a].dir < plan.keep[b].dir

\* C10: keep and delete partition the listed runs, no run twice; keep is in
\* listing order; totalRuns, totalBytes and afterBytes account for them.
C10_PlanPartition ==
  Planned =>
    /\ \A i \in RunIdx : InKeep(i) <=> ~InDelete(i)
    /\ \A a, b \in 1..Len(plan.delete) : plan.delete[a].dir = plan.delete[b].dir => a = b
    /\ \A a, b \in 1..Len(plan.keep) : plan.keep[a].dir = plan.keep[b].dir => a = b
    /\ \A k \in 1..Len(plan.delete) : \E i \in RunIdx : plan.delete[k] = runs[i]
    /\ \A k \in 1..Len(plan.keep) : \E i \in RunIdx : plan.keep[k] = runs[i]
    /\ plan.totalRuns = Len(runs)
    /\ plan.totalRuns = Len(plan.keep) + Len(plan.delete)
    /\ KeepNewestFirst
    /\ plan.totalBytes = BytesOf(RunIdx)
    /\ plan.afterBytes = plan.totalBytes - BytesOf({i \in RunIdx : InDelete(i)})
    /\ plan.afterBytes = BytesOf({i \in RunIdx : InKeep(i)})

\* C10 witness: a run matched by both rules, two runs of different sizes
\* deleted, one kept.
C10_Witness ==
  /\ Planned
  /\ \E i \in RunIdx : Rule1(i) /\ Rule2(i)
  /\ Len(plan.delete) = 2
  /\ plan.delete[1].sizeBytes # plan.delete[2].sizeBytes
  /\ Len(plan.keep) = 1

(***************************************************************************)
(* Properties of the executor.                                             *)
(***************************************************************************)
\* The entry of plan.delete the executor is at.
Entry == plan.delete[idx + 1]

\* This step is fs.rm destroying the directory of the current entry.
GCRemoves ==
  /\ gcPc = "rm"
  /\ gcPc' = "exec"
  /\ fs[Entry.dir].exists
  /\ ~fs'[Entry.dir].exists

\* C7 as stated: whatever mtimeMs was recorded, a directory is removed only
\* if the re-stat found it with exactly the recorded modification time.
C7_Original ==
  [][ GCRemoves => (st.exists /\ st.mtimeMs = Entry.mtimeMs) ]_vars

\* C8 as stated: the executor never destroys a directory changed after the
\* plan was computed: at the removal the directory has the modification
\* time the plan recorded.
C8_Original ==
  [][ GCRemoves => fs[Entry.dir].mtime = Entry.mtimeMs ]_vars

\* C8 amended: a directory changed after planning is destroyed only if the
\* change came after the executor's re-stat of it (the re-stat still saw the
\* recorded modification time) or no modification time was recorded for it
\* (mtimeMs = 0); one changed before the re-stat is never destroyed.
C8_ChangedBeforeRestatSurvives ==
  [][ (GCRemoves /\ fs[Entry.dir].mtime # Entry.mtimeMs)
        => (Entry.mtimeMs = 0 \/ (st.mtimeMs = Entry.mtimeMs /\ fs[Entry.dir].mtime # st.mtimeMs)) ]_vars

\* C8 witness: the executor is done; it removed one planned directory and
\* left another one, which was changed after planning.
C8_Witness ==
  /\ gcPc = "done"
  /\ ~dryRun
  /\ \E a, b \in 1..Len(plan.delete) :
       /\ ~fs[plan.delete[a].dir].exists
       /\ fs[plan.delete[b].dir].exists
       /\ plan.delete[b].mtimeMs # 0
       /\ fs[plan.delete[b].dir].mtime # plan.delete[b].mtimeMs

\* C9: the plan is what planGC computes from the listing and the policy,
\* with or without dry-run; in dry-run mode no step of the command changes
\* the run directories.
C9_DryRunDeletesNothing ==
  /\ [](Planned =>
          plan = planGC(SortNewestFirst(runs), policy.keepLast, policy.keepFailureDays,
                        policy.maxBytes, now))
  /\ [][ (dryRun /\ envSteps' = envSteps) => fs' = fs ]_vars
  /\ [][ (dryRun /\ gcPc = "exec") => (gcPc' = "done" \/ envSteps' # envSteps) ]_vars

\* C9 witness: a dry run is done, its plan names two directories for
\* deletion, and both are on disk unchanged.
C9_Witness ==
  /\ gcPc = "done"
  /\ dryRun
  /\ Len(plan.delete) = 2
  /\ \A k \in 1..Len(plan.delete) :
       /\ fs[plan.delete[k].dir].exists
       /\ fs[plan.delete[k].dir].mtime = plan.delete[k].mtimeMs

(***************************************************************************)
(* Selector grammar (selector.ts).  A token is a sequence of characters,   *)
(* each a one-character string, so that trim, startsWith, slice, split and *)
(* the regular expression are computed on the characters.                  *)
(***************************************************************************)
\* The longest remainder after the prefix in the tokens the parser is run on.
MaxBody == 3

RECURSIVE Str(_)
\* The string a sequence of characters spells.
Str(cs) == IF cs = <<>> THEN "" ELSE cs[1] \o Str(Tail(cs))

\* White space of String.prototype.trim among the characters of the model.
IsSpace(c) == c = " "

IsDigit(c) == c \in {"0", "1", "2", "3", "4", "5", "6", "7", "8", "9"}

RECURSIVE TrimStart(_)
TrimStart(cs) == IF cs # <<>> /\ IsSpace(cs[1]) THEN TrimStart(Tail(cs)) ELSE cs

RECURSIVE TrimEnd(_)
TrimEnd(cs) ==
  IF cs # <<>> /\ IsSpace(cs[Len(cs)]) THEN TrimEnd(SubSeq(cs, 1, Len(cs) - 1)) ELSE cs

\* String.prototype.trim
TrimChars(cs) == TrimEnd(TrimStart(cs))

\* String.prototype.startsWith
StartsWith(cs, prefix) ==
  Len(cs) >= Len(prefix) /\ SubSeq(cs, 1, Len(prefix)) = prefix

\* String.prototype.endsWith for one character
EndsWithChar(cs, c) == cs # <<>> /\ cs[Len(cs)] = c

\* t.slice(n)
SliceFrom(cs, n) == SubSeq(cs, n + 1, Len(cs))

\* /^e\d+$/.test(ref)
IsRef(cs) ==
  /\ Len(cs) >= 2
  /\ cs[1] = "e"
  /\ \A k \in 2..Len(cs) : IsDigit(cs[k])

RECURSIVE SplitComma(_, _)
\* String.prototype.split(","): cur is the part being collected.
SplitComma(cs, cur) ==
  IF cs = <<>> THEN <<cur>>
  ELSE IF cs[1] = "," THEN <<cur>> \o SplitComma(Tail(cs), <<>>)
  ELSE SplitComma(Tail(cs), Append(cur, cs[1]))

DigitValue(c) ==
  CASE c = "0" -> 0 [] c = "1" -> 1 [] c = "2" -> 2 [] c = "3" -> 3 [] c = "4" -> 4
    [] c = "5" -> 5 [] c = "6" -> 6 [] c = "7" -> 7 [] c = "8" -> 8 [] OTHER -> 9

RECURSIVE DigitsValue(_, _)
DigitsValue(cs, acc) ==
  IF cs = <<>> THEN acc ELSE DigitsValue(Tail(cs), 10 * acc + DigitValue(cs[1]))

AllDigits(cs) == cs # <<>> /\ \A k \in 1..Len(cs) : IsDigit(cs[k])

NaN == [finite |-> FALSE, value |-> 0]

Finite(n) == [finite |-> TRUE, value |-> n]

\* Number(string) on the string numeric literals of the model: white space
\* is trimmed, the empty string is 0, an optional sign and decimal digits
\* are their value, anything else is NaN.
Number(cs) ==
  LET t == TrimChars(cs)
  IN IF t = <<>> THEN Finite(0)
     ELSE IF AllDigits(t) THEN Finite(DigitsValue(t, 0))
     ELSE IF t[1] \in {"-", "+"} /\ AllDigits(Tail(t))
          THEN Finite(IF t[1] = "-" THEN 0 - DigitsValue(Tail(t), 0) ELSE DigitsValue(Tail(t), 0))
     ELSE NaN

\* new CLIError(message, {exitCode, code}) with the default of code.
CLIError(message, exitCode) ==
  [ message |-> message,
    exitCode |-> exitCode,
    code |-> IF exitCode = 2 THEN "USAGE"
             ELSE IF exitCode = 127 THEN "DEPENDENCY_MISSING" ELSE "FAILED" ]

usageError(message) == [message |-> message, exitCode |-> 2, code |-> "USAGE"]

Threw(error) == [ok |-> FALSE, error |-> error]

Returned(sel) == [ok |-> TRUE, selector |-> sel]

\* stripQuotes stripping any two quote characters, matching or not.
stripQuotesAnyPair(value) ==
  LET v == TrimChars(value)
  IN IF v = <<>> THEN <<>>
     ELSE IF v[1] \in {"\"", "'"} /\ v[Len(v)] \in {"\"", "'"}
          THEN SubSeq(v, 2, Len(v) - 1)
     ELSE v

\* stripQuotes; v.slice(1, -1) of a one-character string is empty.
stripQuotes(value) ==
  LET v == TrimChars(value)
  IN IF v = <<>> THEN <<>>
     ELSE IF \/ (StartsWith(v, <<"\"">>) /\ EndsWithChar(v, "\""))
             \/ (StartsWith(v, <<"'">>) /\ EndsWithChar(v, "'"))
          THEN SubSeq(v, 2, Len(v) - 1)
     ELSE v

AtSign == <<"@">>
CoordsPrefix == <<"c", "o", "o", "r", "d", "s", ":">>
TextPrefix == <<"t", "e", "x", "t", ":">>
IdPrefix == <<"i", "d", ":">>

parseSelectorToken(tok) ==
  LET t == TrimChars(tok)
  IN IF t = <<>> THEN Threw(usageError("Empty selector"))
     ELSE IF StartsWith(t, AtSign) THEN
       LET ref == SliceFrom(t, 1)
       IN IF ~IsRef(ref) THEN Threw(usageError("Invalid ref selector: " \o Str(tok)))
          ELSE Returned([kind |-> "ref", ref |-> ref])
     ELSE IF StartsWith(t, CoordsPrefix) THEN
       LET parts == SplitComma(SliceFrom(t, Len(CoordsPrefix)), <<>>)
       IN IF Len(parts) # 2 THEN Threw(usageError("Invalid coords selector: " \o Str(tok)))
          ELSE LET x == Number(parts[1])
                   y == Number(parts[2])
               IN IF ~x.finite \/ ~y.finite
                  THEN Threw(usageError("Invalid coords selector: " \o Str(tok)))
                  ELSE Returned([kind |-> "coords", x |-> x.value, y |-> y.value])
     ELSE IF StartsWith(t, TextPrefix) THEN
       LET v == stripQuotes(TrimChars(SliceFrom(t, Len(TextPrefix))))
       IN IF v = <<>> THEN Threw(usageError("Invalid text selector: " \o Str(tok)))
          ELSE Returned([kind |-> "text", text |-> v])
     ELSE IF StartsWith(t, IdPrefix) THEN
       LET v == stripQuotes(TrimChars(SliceFrom(t, Len(IdPrefix))))
       IN IF v = <<>> THEN Threw(usageError("Invalid id selector: " \o Str(tok)))
          ELSE Returned([kind |-> "id", id |-> v])
     ELSE Threw(usageError("Unknown selector: " \o Str(tok)))

\* cmdUiTap: the selector of the command line.  An absent and an empty
\* option are both falsy, so both are the empty sequence here.
cmdUiTapSelector(tok, refO) ==
  LET ref == TrimChars(refO)
  IN IF ref # <<>> /\ tok # <<>>
     THEN Threw(usageError("Provide either <selector> OR --ref, not both."))
     ELSE IF ref = <<>> /\ tok = <<>>
     THEN Threw(usageError("ui tap requires <selector> or --ref <eN>."))
     ELSE IF ref # <<>> THEN Returned([kind |-> "ref", ref |-> ref])
     ELSE parseSelectorToken(tok)

RECURSIVE SeqsUpTo(_, _)
\* The sequences over alphabet of length at most n.
SeqsUpTo(alphabet, n) ==
  IF n = 0 THEN {<<>>}
  ELSE LET shorter == SeqsUpTo(alphabet, n - 1)
       IN shorter \cup { Append(cs, c) : cs \in {x \in shorter : Len(x) = n - 1}, c \in alphabet }

\* The tokens the parser is run on: optional leading white space, a prefix
\* (one of the four, or none of them), and up to MaxBody characters drawn
\* from the characters that matter after that prefix.
ParseTokenForms ==
  { <<AtSign, {"e", "1", "7", "x", " "}>>,
    <<CoordsPrefix, {"1", "5", ",", "-", " ", "x"}>>,
    <<TextPrefix, {"a", "\"", "'", " "}>>,
    <<IdPrefix, {"a", "\"", "'", " "}>>,
    <<<<>>, {"a", ":", " "}>>,
    <<<<"T", "e", "x", "t", ":">>, {"a", ":", " "}>>,
    <<<<"e">>, {"1", "@", " "}>> }

ParseTokens ==
  UNION { { lead \o form[1] \o body :
              lead \in {<<>>, <<" ">>}, body \in SeqsUpTo(form[2], MaxBody) } :
          form \in ParseTokenForms }

NoSelector == [ok |-> FALSE, error |-> [message |-> "", exitCode |-> 0, code |-> ""]]

NoFile == [exists |-> FALSE]

NoTarget == [kind |-> "none"]

SelIdle ==
  /\ token = <<>>
  /\ refOpt = <<>>
  /\ selector = NoSelector
  /\ sessionFile = NoFile
  /\ loaded = <<>>
  /\ target = NoTarget
  /\ tapPc = "idle"

\* cmdUiTap up to the parsed selector; a usage error ends the command.
TapParse ==
  /\ tapPc = "start"
  /\ selector' = cmdUiTapSelector(token, refOpt)
  /\ tapPc' = IF selector'.ok THEN "load" ELSE "failed"
  /\ target' = IF selector'.ok THEN target ELSE [kind |-> "error", error |-> selector'.error]
  /\ UNCHANGED <<token, refOpt, sessionFile, loaded>>

(***************************************************************************)
(* Properties of the selector grammar.                                     *)
(***************************************************************************)
\* The parser has run on the token of the state.
TokenParsed == tapPc \in {"load", "failed"} /\ refOpt = <<>> /\ token # <<>>

\* The variant the prefix of the trimmed token stands for.
PrefixKind(t) ==
  IF StartsWith(t, AtSign) THEN "ref"
  ELSE IF StartsWith(t, CoordsPrefix) THEN "coords"
  ELSE IF StartsWith(t, TextPrefix) THEN "text"
  ELSE IF StartsWith(t, IdPrefix) THEN "id"
  ELSE "none"

Quotes == {"\"", "'"}

\* v is rest with one matching pair of surrounding quotes taken off, or
\* rest itself when rest has no such pair.
QuoteStripped(rest, v) ==
  IF \E q \in Quotes : Len(rest) >= 2 /\ rest[1] = q /\ rest[Len(rest)] = q
  THEN rest = <<rest[1]>> \o v \o <<rest[1]>>
  ELSE v = rest

\* C15: every token either is refused with a usage error or yields exactly
\* one variant, the one its prefix stands for; a ref is e followed by one or
\* more digits; a text or id value is not empty and is the trimmed remainder
\* with one matching pair of quotes taken off; a token with none of the four
\* prefixes is refused.
C15_ParseTotalUnambiguous ==
  TokenParsed =>
    LET t == TrimChars(token)
        r == selector
    IN /\ ~r.ok => (r.error.code = "USAGE" /\ r.error.exitCode = 2 /\ tapPc = "failed")
       /\ r.ok => (r.selector.kind = PrefixKind(t) /\ tapPc = "load")
       /\ PrefixKind(t) = "none" => ~r.ok
       /\ (r.ok /\ r.selector.kind = "ref") =>
            /\ t = AtSign \o r.selector.ref
            /\ Len(r.selector.ref) >= 2
            /\ r.selector.ref[1] = "e"
            /\ \A k \in 2..Len(r.selector.ref) : IsDigit(r.selector.ref[k])
       /\ (r.ok /\ r.selector.kind = "text") =>
            /\ r.selector.text # <<>>
            /\ QuoteStripped(TrimChars(SliceFrom(t, Len(TextPrefix))), r.selector.text)
       /\ (r.ok /\ r.selector.kind = "id") =>
            /\ r.selector.id # <<>>
            /\ QuoteStripped(TrimChars(SliceFrom(t, Len(IdPrefix))), r.selector.id)

\* C15 witness: a text token in matching quotes was parsed and the value is
\* what stood between the quotes.
C15_Witness ==
  /\ TokenParsed
  /\ selector.ok
  /\ selector.selector.kind = "text"
  /\ token = <<" ">> \o TextPrefix \o <<"'", "a", "'">>
  /\ selector.selector.text = <<"a">>

\* A decimal numeral with an optional sign.
IsNumeral(cs) ==
  \/ AllDigits(cs)
  \/ cs # <<>> /\ cs[1] \in {"-", "+"} /\ AllDigits(Tail(cs))

\* C16 as stated: a coords selector is returned only for a token with
\* exactly two comma-separated components that each are a number; a missing,
\* empty or white-space component is refused.
C16_Original ==
  (TokenParsed /\ selector.ok /\ selector.selector.kind = "coords") =>
    LET parts == SplitComma(SliceFrom(TrimChars(token), Len(CoordsPrefix)), <<>>)
    IN /\ Len(parts) = 2
       /\ \A k \in 1..Len(parts) : IsNumeral(TrimChars(parts[k]))

(***************************************************************************)
(* The persisted snapshot (session store, isUISnapshot).  A JSON value is  *)
(* [t, v]: its type and its content; an object's content maps its keys to  *)
(* JSON values, except that the elements and the refs of a snapshot are    *)
(* kept as the element records of this model.                              *)
(***************************************************************************)
\* The longest element list of a persisted snapshot.
MaxElems == 3

JNull == [t |-> "null"]
JUndefined == [t |-> "undefined"]
JBool(b) == [t |-> "boolean", v |-> b]
JNum(n) == [t |-> "number", v |-> n]
JStr(s) == [t |-> "string", v |-> s]
JArr(items) == [t |-> "array", v |-> items]
JObj(fields) == [t |-> "object", v |-> fields]

\* Boolean(value)
Truthy(j) ==
  CASE j.t = "null" -> FALSE
    [] j.t = "undefined" -> FALSE
    [] j.t = "boolean" -> j.v
    [] j.t = "number" -> j.v # 0
    [] j.t = "string" -> j.v # ""
    [] OTHER -> TRUE

\* value[k] of an object
Field(j, k) == IF k \in DOMAIN j.v THEN j.v[k] ELSE JUndefined

isRecord(j) == Truthy(j) /\ j.t = "object"

NullOrString(j) == j.t = "null" \/ j.t = "string"

isUISnapshot(j) ==
  /\ isRecord(j)
  /\ Field(j, "snapshot_id").t = "string" /\ Truthy(Field(j, "snapshot_id"))
  /\ Field(j, "taken_at").t = "string" /\ Truthy(Field(j, "taken_at"))
  /\ Field(j, "platform") \in {JStr("ios"), JStr("android")}
  /\ NullOrString(Field(j, "device_id"))
  /\ NullOrString(Field(j, "app_id"))
  /\ Field(j, "tree").t = "string"
  /\ Field(j, "elements").t = "array"
  /\ isRecord(Field(j, "refs"))

\* JSON.stringify of a model string or null
JStrOrNull(s) == IF s = Null THEN JNull ELSE JStr(s)

\* What JSON.parse gives back for the text writeLastSnapshot wrote.
SnapshotJson(snap) ==
  JObj([ snapshot_id |-> JStr(snap.snapshot_id),
         taken_at |-> JStr(snap.taken_at),
         platform |-> JStr(snap.platform),
         device_id |-> JStrOrNull(snap.device_id),
         app_id |-> JStrOrNull(snap.app_id),
         tree |-> JStr(snap.tree),
         elements |-> JArr(snap.elements),
         refs |-> JObj(snap.refs) ])

\* A value that passed isUISnapshot, read as a UISnapshot.
AsUISnapshot(j) ==
  [ snapshot_id |-> j.v.snapshot_id.v,
    taken_at |-> j.v.taken_at.v,
    platform |-> j.v.platform.v,
    device_id |-> IF j.v.device_id.t = "null" THEN Null ELSE j.v.device_id.v,
    app_id |-> IF j.v.app_id.t = "null" THEN Null ELSE j.v.app_id.v,
    tree |-> j.v.tree.v,
    elements |-> j.v.elements.v,
    refs |-> j.v.refs.v ]

\* A file is [exists], and when it exists [text] for a text JSON.parse
\* refuses (the empty text among them) or [json] for the value it returns.
FileText(txt) == [exists |-> TRUE, parses |-> FALSE, text |-> txt]
FileJson(j) == [exists |-> TRUE, parses |-> TRUE, json |-> j]

\* readLastSnapshot: <<>> is the code's null.
readLastSnapshot(file) ==
  IF ~file.exists THEN <<>>
  ELSE IF ~file.parses /\ file.text = "" THEN <<>>
  ELSE IF ~file.parses THEN <<>>
  ELSE <<file.json>>

NoSnapshotFound ==
  CLIError("No snapshot found for this session. Run: mobile-dev-agent ui snapshot -i", 1)

InvalidSnapshotFile ==
  CLIError("Invalid snapshot file for this session. Re-run: mobile-dev-agent ui snapshot -i", 1)

\* !raw of loadLastSnapshotOrThrow, taking every value read for truthy.
RawMissingOnlyNull(read) == read = <<>>

\* !raw of loadLastSnapshotOrThrow: null, or a falsy JSON value.
RawMissing(read) == read = <<>> \/ ~Truthy(read[1])

loadLastSnapshotOrThrow(file) ==
  LET read == readLastSnapshot(file)
  IN IF RawMissing(read) THEN [ok |-> FALSE, error |-> NoSnapshotFound]
     ELSE IF ~isUISnapshot(read[1]) THEN [ok |-> FALSE, error |-> InvalidSnapshotFile]
     ELSE [ok |-> TRUE, snapshot |-> AsUISnapshot(read[1])]

(***************************************************************************)
(* Resolution of a selector against a snapshot (selector.ts).              *)
(***************************************************************************)
\* Math.round of n2/2: the nearest integer, a half going up.
RoundHalves(n2) == (n2 + 1) \div 2

\* The center with the half cut off instead of rounded.
elementCenterTruncated(el) ==
  [ x |-> el.bounds.x + (el.bounds.w \div 2), y |-> el.bounds.y + (el.bounds.h \div 2) ]

\* elementCenter for integer bounds: x + w/2 is (2x + w)/2.
elementCenter(el) ==
  [ x |-> RoundHalves(2 * el.bounds.x + el.bounds.w),
    y |-> RoundHalves(2 * el.bounds.y + el.bounds.h) ]

\* The property names every object inherits from Object.prototype.
ObjectPrototypeKeys ==
  { "constructor", "toString", "valueOf", "hasOwnProperty", "isPrototypeOf",
    "propertyIsEnumerable", "toLocaleString", "__proto__" }

\* The value of an inherited property: truthy, and not an element.
PrototypeMember(key) == [inherited |-> key]

\* snapshot.refs[key] ?? null, <<>> being null.
RefLookup(refs, key) ==
  IF key \in DOMAIN refs THEN <<refs[key]>>
  ELSE IF key \in ObjectPrototypeKeys THEN <<PrototypeMember(key)>>
  ELSE <<>>

\* Array.prototype.find picks the hit with the greatest index.
LastHit(hits) == CHOOSE k \in hits : \A j \in hits : j <= k

\* Array.prototype.find picks the hit with the least index.
FirstHit(hits) == CHOOSE k \in hits : \A j \in hits : k <= j

\* elements.find(...) ?? null given the indices the test holds at.
FindAt(elements, hits) == IF hits = {} THEN <<>> ELSE <<elements[FirstHit(hits)]>>

\* e.name === text, also true of a name that goes on after the text.
NameEqualsOrExtends(e, text) == e.name = text \/ e.name = text \o " now"

\* e.name === selector.text
NameEquals(e, text) == e.name = text

\* a ?? b on find results
OrFind(a, b) == IF a # <<>> THEN a ELSE b

findByText(elements, text) ==
  FindAt(elements, {k \in 1..Len(elements) : NameEquals(elements[k], text)})

findById(elements, id) ==
  OrFind(FindAt(elements, {k \in 1..Len(elements) :
                             \/ elements[k].selectors.ios.id = id
                             \/ elements[k].selectors.ios.label = id}),
  OrFind(FindAt(elements, {k \in 1..Len(elements) : elements[k].selectors.android.resource_id = id}),
         FindAt(elements, {k \in 1..Len(elements) : elements[k].selectors.android.content_desc = id})))

RECURSIVE JsonEscape(_)
\* The characters JSON.stringify writes for the characters of a string.
JsonEscape(cs) ==
  IF cs = <<>> THEN <<>>
  ELSE (IF cs[1] \in {"\"", "\\"} THEN <<"\\", cs[1]>> ELSE <<cs[1]>>) \o JsonEscape(Tail(cs))

\* JSON.stringify(string)
JsonString(cs) == "\"" \o Str(JsonEscape(cs)) \o "\""

formatSelector(sel) ==
  IF sel.kind = "ref" THEN "@" \o Str(sel.ref)
  ELSE IF sel.kind = "coords" THEN "coords:" \o ToString(sel.x) \o "," \o ToString(sel.y)
  ELSE IF sel.kind = "text" THEN "text:" \o JsonString(sel.text)
  ELSE IF sel.kind = "id" THEN "id:" \o JsonString(sel.id)
  ELSE "unknown"

\* The outcome of resolveTapTarget: the target it returns, the CLIError it
\* throws, or the TypeError of destructuring el.bounds when el has none.
resolveTapTarget(snap, sel) ==
  IF sel.kind = "coords" THEN [kind |-> "coords", x |-> sel.x, y |-> sel.y]
  ELSE LET el == IF sel.kind = "ref" THEN RefLookup(snap.refs, Str(sel.ref))
                 ELSE IF sel.kind = "text" THEN findByText(snap.elements, Str(sel.text))
                 ELSE IF sel.kind = "id" THEN findById(snap.elements, Str(sel.id))
                 ELSE <<>>
       IN IF el = <<>>
          THEN [kind |-> "error",
                error |-> usageError("No matching element for selector: " \o formatSelector(sel))]
          ELSE IF "bounds" \notin DOMAIN el[1]
          THEN [kind |-> "crash", error |-> [name |-> "TypeError"]]
          ELSE [kind |-> "element", element |-> el[1],
                x |-> elementCenter(el[1]).x, y |-> elementCenter(el[1]).y]

(***************************************************************************)
(* The ui tap command: cmdUiTap, then tapWithResolvedTarget up to the      *)
(* point it taps.  Device lookup and the tap itself are left out.          *)
(***************************************************************************)
TapElement(role, name, bounds, iosId, iosLabel, resourceId, contentDesc) ==
  [ role |-> role, name |-> name, value |-> Null, bounds |-> bounds,
    states |-> defaultStates,
    selectors |-> [ ios |-> [id |-> iosId, label |-> iosLabel],
                    android |-> [resource_id |-> resourceId, content_desc |-> contentDesc,
                                 class |-> Null] ] ]

\* The elements persisted snapshots are made of: the button of the selector
\* test, and three that share its name or carry its id under another field.
TapElements ==
  { TapElement("button", "Sign in", [x |-> 10, y |-> 20, w |-> 100, h |-> 40],
               "btnSignIn", "Sign in", Null, Null),
    TapElement("unknown", "Sign in now", [x |-> 0, y |-> 0, w |-> 1, h |-> 1],
               Null, "btnSignIn", Null, Null),
    TapElement("button", "sign in", [x |-> 0 - 3, y |-> 0 - 3, w |-> 1, h |-> 0],
               Null, Null, "btnSignIn", Null),
    TapElement("unknown", "Sign in", [x |-> 5, y |-> 5, w |-> 0, h |-> 3],
               Null, Null, Null, "btnSignIn") }

\* The snapshots ui snapshot persisted.
TapSnapshots ==
  { buildSnapshot("ios", "UDID-123", Null, els, "uuid-1", "2026-01-01T00:00:00.000Z") :
      els \in UNION { [1..n -> TapElements] : n \in 0..MaxElems } }

GoodSnapshotJson ==
  SnapshotJson(buildSnapshot("ios", "UDID-123", Null, <<>>, "uuid-1", "2026-01-01T00:00:00.000Z"))

\* Objects that fail one test of isUISnapshot each.
BrokenSnapshotJsons ==
  { JObj([GoodSnapshotJson.v EXCEPT !.snapshot_id = JStr("")]),
    JObj([GoodSnapshotJson.v EXCEPT !.taken_at = JNum(5)]),
    JObj([GoodSnapshotJson.v EXCEPT !.platform = JStr("web")]),
    JObj([GoodSnapshotJson.v EXCEPT !.device_id = JNum(5)]),
    JObj([GoodSnapshotJson.v EXCEPT !.app_id = JBool(FALSE)]),
    JObj([GoodSnapshotJson.v EXCEPT !.tree = JNull]),
    JObj([GoodSnapshotJson.v EXCEPT !.elements = JObj(<<>>)]),
    JObj([GoodSnapshotJson.v EXCEPT !.refs = JArr(<<>>)]),
    JObj([GoodSnapshotJson.v EXCEPT !.refs = JNull]),
    JObj([tree |-> JStr("")]),
    JObj(<<>>) }

\* Contents of the last-snapshot file that are no snapshot.
BadFiles ==
  { FileText(""), FileText("{\"snapshot_id\": "), FileText("not json") }
    \cup { FileJson(j) : j \in { JNull, JBool(FALSE), JBool(TRUE), JNum(0), JNum(5),
                                 JStr(""), JStr("e1"), JArr(<<>>) } }
    \cup { FileJson(j) : j \in BrokenSnapshotJsons }

TapFiles == {NoFile} \cup BadFiles \cup { FileJson(SnapshotJson(s)) : s \in TapSnapshots }

SignIn == <<"S", "i", "g", "n", " ", "i", "n">>
BtnSignIn == <<"b", "t", "n", "S", "i", "g", "n", "I", "n">>

\* Positional selector tokens of ui tap.
TapTokens ==
  { AtSign \o <<"e", "1">>,
    AtSign \o <<"e", "2">>,
    AtSign \o <<"e", "9">>,
    AtSign \o <<"x">>,
    TextPrefix \o <<"\"">> \o SignIn \o <<"\"">>,
    TextPrefix \o SignIn \o <<" ", "n", "o", "w">>,
    TextPrefix \o <<"S", "i", "g", "n">>,
    TextPrefix \o <<"\"", "a", "\\", "b", "\"">>,
    IdPrefix \o <<"\"">> \o BtnSignIn \o <<"\"">>,
    IdPrefix \o <<"'">> \o SignIn \o <<"'">>,
    IdPrefix \o <<"n", "o", "p", "e">>,
    CoordsPrefix \o <<"5", "0", ",", "6", "0">>,
    CoordsPrefix \o <<",", "5">>,
    <<"t", "a", "p">> }

\* Values of --ref.
TapRefOptions ==
  { <<"e", "1">>, <<" ", "e", "2">>, <<"e", "9">>,
    <<"c", "o", "n", "s", "t", "r", "u", "c", "t", "o", "r">> }

\* selector.kind === "coords" ? null : await loadLastSnapshotOrThrow(...),
\* loading the snapshot for every selector.
NeedsSnapshotAlways(sel) == TRUE

\* selector.kind === "coords" ? null : await loadLastSnapshotOrThrow(...)
NeedsSnapshot(sel) == sel.kind # "coords"

TapLoad ==
  /\ tapPc = "load"
  /\ IF ~NeedsSnapshot(selector.selector)
     THEN /\ loaded' = <<>>
          /\ tapPc' = "resolve"
          /\ UNCHANGED target
     ELSE LET r == loadLastSnapshotOrThrow(sessionFile)
          IN IF r.ok
             THEN /\ loaded' = <<r.snapshot>>
                  /\ tapPc' = "resolve"
                  /\ UNCHANGED target
             ELSE /\ target' = [kind |-> "error", error |-> r.error]
                  /\ tapPc' = "failed"
                  /\ UNCHANGED loaded
  /\ UNCHANGED <<token, refOpt, selector, sessionFile>>

NoSnapshotAvailable ==
  CLIError("No snapshot available for selector-based tap. Run: mobile-dev-agent ui snapshot -i", 1)

\* tapWithResolvedTarget: the point to tap (the same code on both platforms).
TapResolve ==
  /\ tapPc = "resolve"
  /\ target' = IF selector.selector.kind = "coords"
               THEN [kind |-> "coords", x |-> selector.selector.x, y |-> selector.selector.y]
               ELSE IF loaded = <<>> THEN [kind |-> "error", error |-> NoSnapshotAvailable]
               ELSE resolveTapTarget(loaded[1], selector.selector)
  /\ tapPc' = IF target'.kind \in {"coords", "element"} THEN "tapped" ELSE "failed"
  /\ UNCHANGED <<token, refOpt, selector, sessionFile, loaded>>

(***************************************************************************)
(* Properties of resolution and of the tap command.                        *)
(***************************************************************************)
\* tapWithResolvedTarget has resolved the selector against the snapshot.
Resolved == tapPc \in {"tapped", "failed"} /\ selector.ok /\ loaded # <<>>

Sel == selector.selector

MissError(rendered) == usageError("No matching element for selector: " \o rendered)

\* No element of the loaded snapshot carries id in any of the four fields.
NoIdMatch(id) ==
  \A k \in 1..Len(loaded[1].elements) :
    LET e == loaded[1].elements[k]
    IN /\ e.selectors.ios.id # id
       /\ e.selectors.ios.label # id
       /\ e.selectors.android.resource_id # id
       /\ e.selectors.android.content_desc # id

\* C11 as stated: a ref selector resolves to the element the refs map holds
\* under that key and to nothing else; a ref, text or id selector that
\* matches no element ends in the "No matching element for selector" error
\* with the rendered selector.
C11_Original ==
  Resolved =>
    /\ Sel.kind = "ref" =>
         IF Str(Sel.ref) \in DOMAIN loaded[1].refs
         THEN target.kind = "element" /\ target.element = loaded[1].refs[Str(Sel.ref)]
         ELSE target = [kind |-> "error", error |-> MissError("@" \o Str(Sel.ref))]
    /\ (Sel.kind = "text" /\ \A k \in 1..Len(loaded[1].elements) :
                               loaded[1].elements[k].name # Str(Sel.text)) =>
         target = [kind |-> "error", error |-> MissError("text:" \o JsonString(Sel.text))]
    /\ (Sel.kind = "id" /\ NoIdMatch(Str(Sel.id))) =>
         target = [kind |-> "error", error |-> MissError("id:" \o JsonString(Sel.id))]

\* C12: a text selector resolves to the first element, in snapshot order,
\* whose name is the selector's text exactly; an element whose name only
\* starts with the text or differs in case is never the result; without
\* such an element the selector matches nothing.
C12_TextExactFirst ==
  (Resolved /\ Sel.kind = "text") =>
    LET els == loaded[1].elements
        hits == {k \in 1..Len(els) : els[k].name = Str(Sel.text)}
    IN /\ hits = {} => target.kind = "error"
       /\ hits # {} =>
            /\ target.kind = "element"
            /\ target.element.name = Str(Sel.text)
            /\ \E k \in hits : target.element = els[k] /\ \A j \in 1..(k - 1) : j \notin hits

\* C12 witness: text:"Sign in" against "Sign in now", "Sign in", "Sign in"
\* resolved to the second element.
C12_Witness ==
  /\ Resolved
  /\ Sel.kind = "text"
  /\ Str(Sel.text) = "Sign in"
  /\ Len(loaded[1].elements) = 3
  /\ loaded[1].elements[1].name = "Sign in now"
  /\ loaded[1].elements[2].name = "Sign in"
  /\ loaded[1].elements[3].name = "Sign in"
  /\ loaded[1].elements[3] # [loaded[1].elements[2] EXCEPT !.ref = "e3"]
  /\ target.kind = "element"
  /\ target.element.ref = "e2"

\* The least index at which a field selected by rule (1: ios.id, 2: ios.label,
\* 3: android.resource_id, 4: android.content_desc) equals id, 0 if none.
RuleField(e, rule) ==
  CASE rule = 1 -> e.selectors.ios.id
    [] rule = 2 -> e.selectors.ios.label
    [] rule = 3 -> e.selectors.android.resource_id
    [] OTHER -> e.selectors.android.content_desc

RuleHits(els, rule, id) == {k \in 1..Len(els) : RuleField(els[k], rule) = id}

\* C13 as stated: an id selector resolves by the first of the four rules
\* that any element satisfies, to the first element satisfying that rule.
C13_Original ==
  (Resolved /\ Sel.kind = "id") =>
    LET els == loaded[1].elements
        id == Str(Sel.id)
        rules == {r \in 1..4 : RuleHits(els, r, id) # {}}
    IN IF rules = {} THEN target.kind = "error"
       ELSE LET rule == CHOOSE r \in rules : \A q \in rules : r <= q
                k == CHOOSE i \in RuleHits(els, rule, id) : \A j \in RuleHits(els, rule, id) : i <= j
            IN target.kind = "element" /\ target.element = els[k]

\* C14: the point of a resolved element is the center of its bounds rounded
\* to the nearest integer, a half going up; it lies within the bounds; the
\* bounds (10,20,100,40) give (60,40).
C14_RoundedCenter ==
  (Resolved /\ target.kind = "element") =>
    LET b == target.element.bounds
    IN /\ (b.w >= 0 /\ b.h >= 0) =>
            /\ 2 * target.x - (2 * b.x + b.w) \in {0, 1}
            /\ 2 * target.y - (2 * b.y + b.h) \in {0, 1}
            /\ b.x <= target.x /\ target.x <= b.x + b.w
            /\ b.y <= target.y /\ target.y <= b.y + b.h
       /\ b = [x |-> 10, y |-> 20, w |-> 100, h |-> 40] => (target.x = 60 /\ target.y = 40)

\* C14 witness: an element at (-3,-3) of width 1 and height 0 was resolved
\* to (-2,-3).
C14_Witness ==
  /\ Resolved
  /\ target.kind = "element"
  /\ target.element.bounds = [x |-> 0 - 3, y |-> 0 - 3, w |-> 1, h |-> 0]
  /\ target.x = 0 - 2
  /\ target.y = 0 - 3

\* The last-snapshot file holds a structurally valid snapshot.
ValidSnapshotFile(file) == file.exists /\ file.parses /\ isUISnapshot(file.json)

\* tapWithResolvedTarget is past its line that loads the snapshot.
PastLoad == selector.ok /\ tapPc \in {"resolve", "tapped", "failed"}

\* C17: a coords selector resolves to its literal point against every
\* snapshot, the empty one included; the tap command does not read the
\* last-snapshot file for it and taps the point whether the file is
\* missing, invalid or valid.
C17_CoordsLiteral ==
  (PastLoad /\ Sel.kind = "coords") =>
    /\ loaded = <<>>
    /\ tapPc # "failed"
    /\ tapPc = "tapped" => target = [kind |-> "coords", x |-> Sel.x, y |-> Sel.y]
    /\ ValidSnapshotFile(sessionFile) =>
         resolveTapTarget(AsUISnapshot(sessionFile.json), Sel)
           = [kind |-> "coords", x |-> Sel.x, y |-> Sel.y]

\* C17 witness: coords:50,60 was tapped at (50,60) with no last-snapshot
\* file in the session.
C17_Witness ==
  /\ tapPc = "tapped"
  /\ selector.ok
  /\ Sel.kind = "coords"
  /\ ~sessionFile.exists
  /\ target = [kind |-> "coords", x |-> 50, y |-> 60]

\* C18 as stated: the error of a resolution miss differs in code or in exit
\* code from the error every malformed token is refused with.
C18_Original ==
  (Resolved /\ target.kind = "error") =>
    \A tok \in TapTokens :
      LET p == parseSelectorToken(tok)
      IN ~p.ok => (p.error.code # target.error.code \/ p.error.exitCode # target.error.exitCode)

\* C19 as stated: whenever a selector needs the snapshot and the file exists
\* without holding a structurally valid snapshot, the command fails with the
\* "Invalid snapshot file" error.
C19_Original ==
  (PastLoad /\ Sel.kind # "coords" /\ sessionFile.exists /\ ~ValidSnapshotFile(sessionFile)) =>
    (tapPc = "failed" /\ target = [kind |-> "error", error |-> InvalidSnapshotFile])

\* C19 amended: whenever a selector needs the snapshot and the file exists
\* without holding a structurally valid snapshot, the command fails before
\* any resolution with a CLIError of exit code 1: the "Invalid snapshot
\* file" error when the content is JSON for a truthy value, the "No snapshot
\* found" error when the content is not JSON, is empty, or is JSON for
\* null, false, 0 or "".
C19_InvalidOrNotFound ==
  (PastLoad /\ Sel.kind # "coords" /\ sessionFile.exists /\ ~ValidSnapshotFile(sessionFile)) =>
    /\ tapPc = "failed"
    /\ loaded = <<>>
    /\ target.kind = "error"
    /\ target.error.exitCode = 1
    /\ target.error =
         IF sessionFile.parses /\ Truthy(sessionFile.json)
         THEN InvalidSnapshotFile
         ELSE NoSnapshotFound

\* C19 witness: a ref tap failed with "Invalid snapshot file" on an object
\* whose refs is an array.
C19_Witness ==
  /\ tapPc = "failed"
  /\ selector.ok
  /\ Sel.kind = "ref"
  /\ sessionFile.exists
  /\ sessionFile.parses
  /\ sessionFile.json.t = "object"
  /\ Field(sessionFile.json, "refs") = JArr(<<>>)
  /\ target = [kind |-> "error", error |-> InvalidSnapshotFile]

\* C20: a planned directory that is gone, or whose modification time
\* differs from the recorded one, makes the executor go on to the next entry
\* with the disk as it is and no error; an entry found unchanged goes to
\* fs.rm and is removed; the executor is never stuck and ends only after the
\* last entry of plan.delete.
C20_RacesSwallowed ==
  /\ []((gcPc = "done" /\ ~dryRun) => idx = Len(plan.delete))
  /\ [][ (gcPc = "exec" /\ ~dryRun /\ idx < Len(plan.delete) /\ envSteps' = envSteps) =>
           IF \/ ~fs[Entry.dir].exists
              \/ (Entry.mtimeMs # 0 /\ fs[Entry.dir].mtime # Entry.mtimeMs)
           THEN gcPc' = "exec" /\ idx' = idx + 1 /\ fs' = fs
           ELSE gcPc' = "rm" /\ idx' = idx /\ fs' = fs ]_vars
  /\ [][ (gcPc = "rm" /\ envSteps' = envSteps) =>
           (~fs'[Entry.dir].exists /\ idx' = idx + 1 /\ gcPc' = "exec") ]_vars
  /\ [](gcPc \in {"exec", "rm"} => ENABLED (ExecDryRun \/ ExecStat \/ ExecRm \/ ExecDone))

\* C20 witness: the executor is done with a plan of two entries; the first
\* directory was written to after planning and is still there with its
\* content, the second one was removed.
C20_Witness ==
  /\ gcPc = "done"
  /\ ~dryRun
  /\ Len(plan.delete) = 2
  /\ envSteps = 1
  /\ fs[plan.delete[1].dir].exists
  /\ fs[plan.delete[1].dir].size = 1
  /\ plan.delete[1].mtimeMs # 0
  /\ fs[plan.delete[1].dir].mtime # plan.delete[1].mtimeMs
  /\ ~fs[plan.delete[2].dir].exists

(***************************************************************************)
(* De-duplication of the iOS candidates.                                   *)
(***************************************************************************)
\* Nodes of a flat describe-ui dump that differ from one another in the
\* role, the label, the identifier or the frame, one of them repeated with
\* another enabled state.
DedupObject(role, label, id, x) ==
  [role |-> role, label |-> label, identifier |-> id,
   frame |-> [x |-> x, y |-> 0, width |-> 40, height |-> 20]]

DedupObjects ==
  { DedupObject(role, label, id, 0) :
      role \in {"AXButton", "AXLink"}, label \in {"a", "a|b"}, id \in {"c", "b|c"} }
    \cup { DedupObject("AXButton", "a", "c", 5),
           DedupObject("AXButton", "a", "c", 0) @@ [enabled |-> FALSE] }

DedupPayloads ==
  UNION { { [obj |-> objs, parent |-> [i \in 1..n |-> 0], key |-> [i \in 1..n |-> RootKey]] :
              objs \in [1..n -> DedupObjects] } : n \in 0..MaxNodes }

\* The tuple the de-duplication is specified on.
DedupTuple(e) == <<e.role, e.name, e.selectors.ios.id, e.bounds>>

\* The candidates of the payload being parsed.
RawCandidates ==
  LET visited == walkAny(raw)
  IN IOSCandidates([k \in 1..Len(visited) |-> raw.obj[visited[k]]])

\* The positions of the candidates that are the first with their tuple.
FirstOfTuple(cands) ==
  SelectSeq([k \in 1..Len(cands) |-> k],
            LAMBDA k : \A j \in 1..(k - 1) : DedupTuple(cands[j]) # DedupTuple(cands[k]))

\* C21: the output of the iOS parser holds exactly the candidates that are
\* the first with their (role, name, ios.id, bounds) tuple, in candidate
\* order; two candidates whose tuples differ are both kept.
C21_Original ==
  (platform = "ios" /\ snapPc # "raw" /\ ~interactiveOnly)
    => LET first == FirstOfTuple(RawCandidates)
       IN parsed = [k \in 1..Len(first) |-> RawCandidates[first[k]]]

(***************************************************************************)
(* The interactiveOnly flag.                                               *)
(***************************************************************************)
\* The predicate of the interactive filter on an element of either parser.
InteractiveRoleAndArea(e) ==
  /\ e.role \in {"button", "textbox", "link", "checkbox", "switch"}
  /\ e.bounds.w > 0
  /\ e.bounds.h > 0

\* The predicate of the interactive filter on a <node> tag.
InteractiveNode(attrs) ==
  /\ \/ Attr(attrs, "clickable") = "true"
     \/ Attr(attrs, "focusable") = "true"
     \/ AndroidElement(attrs).role \in {"button", "textbox", "link", "checkbox", "switch"}
  /\ AndroidElement(attrs).bounds.w > 0
  /\ AndroidElement(attrs).bounds.h > 0

IndexFrom(cs, c, from) ==
  LET hits == {k \in from..Len(cs) : cs[k] = c}
  IN IF hits = {} THEN 0 ELSE CHOOSE k \in hits : \A j \in hits : k <= j

\* bounds.match(/^\[(\d+),(\d+)\]\[(\d+),(\d+)\]$/): the four captured
\* digit strings, or <<>> when the string does not match.  A digit string
\* holds no separator, so each group ends at the first separator after it.
matchBounds(cs) ==
  LET c1 == IndexFrom(cs, ",", 2)
      b1 == IF c1 = 0 THEN 0 ELSE IndexFrom(cs, "]", c1 + 1)
      c2 == IF b1 = 0 THEN 0 ELSE IndexFrom(cs, ",", b1 + 2)
      b2 == IF c2 = 0 THEN 0 ELSE IndexFrom(cs, "]", c2 + 1)
  IN IF b2 = 0 \/ b2 # Len(cs) \/ cs[1] # "[" \/ b1 + 1 > Len(cs) THEN <<>>
     ELSE IF cs[b1 + 1] # "[" THEN <<>>
     ELSE LET g == << SubSeq(cs, 2, c1 - 1), SubSeq(cs, c1 + 1, b1 - 1),
                      SubSeq(cs, b1 + 2, c2 - 1), SubSeq(cs, c2 + 1, b2 - 1) >>
          IN IF \A k \in 1..4 : AllDigits(g[k]) THEN g ELSE <<>>

\* parseAndroidBounds returning the differences unclamped.
parseAndroidBoundsUnclamped(cs) ==
  LET m == matchBounds(cs)
  IN IF m = <<>> THEN [x |-> 0, y |-> 0, w |-> 0, h |-> 0]
     ELSE LET l == DigitsValue(m[1], 0)
              t == DigitsValue(m[2], 0)
              r == DigitsValue(m[3], 0)
              b == DigitsValue(m[4], 0)
          IN [x |-> l, y |-> t, w |-> r - l, h |-> b - t]

parseAndroidBoundsChars(cs) ==
  LET m == matchBounds(cs)
  IN IF m = <<>> THEN [x |-> 0, y |-> 0, w |-> 0, h |-> 0]
     ELSE LET l == DigitsValue(m[1], 0)
              t == DigitsValue(m[2], 0)
              r == DigitsValue(m[3], 0)
              b == DigitsValue(m[4], 0)
          IN [x |-> l, y |-> t, w |-> Max(0, r - l), h |-> Max(0, b - t)]

\* Digit strings, and strings that are not digit strings.
BoundsNumerals == { <<"0">>, <<"5">>, <<"1", "0">>, <<"5", "0">>, <<"1", "0", "0">>, <<"0", "5">> }
BoundsNonNumerals == { <<>>, <<"-", "1">>, <<"1", ".", "5">>, <<"a">>, <<" ", "5">> }

\* The literal [l,t][r,b].
BoundsLiteral(l, t, r, b) ==
  <<"[">> \o l \o <<",">> \o t \o <<"]", "[">> \o r \o <<",">> \o b \o <<"]">>

\* The values of the bounds attribute: the literals over the numerals, the
\* literals with one component that is no numeral, and literals with
\* a separator missing, doubled or replaced, or with text around them.
BoundsTexts ==
  { BoundsLiteral(l, t, r, b) : l \in BoundsNumerals, t \in BoundsNumerals,
                                r \in BoundsNumerals, b \in BoundsNumerals }
  \cup UNION { { BoundsLiteral(z, n, <<"9">>, <<"9">>), BoundsLiteral(n, z, <<"9">>, <<"9">>),
                 BoundsLiteral(<<"1">>, <<"1">>, z, n), BoundsLiteral(<<"1">>, <<"1">>, n, z) } :
               z \in BoundsNonNumerals, n \in BoundsNumerals }
  \cup UNION { { <<>>,
                 n \o <<",">> \o n \o <<",">> \o n \o <<",">> \o n,
                 <<"[">> \o n \o <<",">> \o n \o <<",">> \o n \o <<",">> \o n \o <<"]">>,
                 <<"[">> \o n \o <<",">> \o n \o <<"]", "[">> \o n \o <<",">> \o n,
                 n \o <<",">> \o n \o <<"]", "[">> \o n \o <<",">> \o n \o <<"]">>,
                 <<"[">> \o n \o <<",">> \o n \o <<"]", " ", "[">> \o n \o <<",">> \o n \o <<"]">>,
                 <<"[">> \o n \o <<",">> \o n \o <<"]">>,
                 <<"[">> \o n \o <<",">> \o n \o <<"]", "[">> \o n \o <<"]">>,
                 <<"[">> \o n \o <<",">> \o n \o <<",">> \o n \o <<"]", "[">> \o n \o <<",">> \o n \o <<"]">>,
                 <<"(">> \o n \o <<",">> \o n \o <<")", "(">> \o n \o <<",">> \o n \o <<")">>,
                 <<" ">> \o BoundsLiteral(n, n, n, n),
                 BoundsLiteral(n, n, n, n) \o <<" ">>,
                 BoundsLiteral(n, n, n, n) \o <<"]">>,
                 BoundsLiteral(n, n, n, n) \o BoundsLiteral(n, n, n, n) } : n \in BoundsNumerals }

BoundsIdle ==
  /\ boundsText = <<>>
  /\ boundsOut = <<>>

\* const boundsRaw = attrs.bounds ?? ""; const bounds = parseAndroidBounds(boundsRaw)
ParseBounds ==
  /\ boundsOut = <<>>
  /\ boundsOut' = << parseAndroidBoundsChars(IF boundsText = <<>> THEN <<>> ELSE boundsText[1]) >>
  /\ UNCHANGED boundsText

\* The numeral a digit string of BoundsNumerals spells.
NumeralValue(n) ==
  CASE n = <<"0">> -> 0
    [] n = <<"5">> -> 5
    [] n = <<"1", "0">> -> 10
    [] n = <<"5", "0">> -> 50
    [] n = <<"1", "0", "0">> -> 100
    [] n = <<"0", "5">> -> 5

\* The value of the bounds attribute is the literal [l,t][r,b].
SpellsBounds(l, t, r, b) == boundsText = <<BoundsLiteral(l, t, r, b)>>

\* C23 as stated: the literal [l,t][r,b] gives {x: l, y: t, w: r - l, h: b - t}.
C23_Original ==
  boundsOut # <<>> =>
    \A l, t, r, b \in BoundsNumerals :
      SpellsBounds(l, t, r, b) =>
        boundsOut[1] = [x |-> NumeralValue(l), y |-> NumeralValue(t),
                        w |-> NumeralValue(r) - NumeralValue(l),
                        h |-> NumeralValue(b) - NumeralValue(t)]

\* C23: the literal [l,t][r,b] of non-negative integers gives x = l, y = t,
\* w = max(0, r - l) and h = max(0, b - t), "[0,0][100,50]" giving
\* {0, 0, 100, 50}; every other value of the attribute, and a node without
\* the attribute, gives {0, 0, 0, 0}.
C23_BoundsClamped ==
  boundsOut # <<>> =>
    /\ \A l, t, r, b \in BoundsNumerals :
         SpellsBounds(l, t, r, b) =>
           boundsOut[1] = [x |-> NumeralValue(l), y |-> NumeralValue(t),
                           w |-> Max(0, NumeralValue(r) - NumeralValue(l)),
                           h |-> Max(0, NumeralValue(b) - NumeralValue(t))]
    /\ (~ \E l, t, r, b \in BoundsNumerals : SpellsBounds(l, t, r, b)) =>
         boundsOut[1] = [x |-> 0, y |-> 0, w |-> 0, h |-> 0]
    /\ SpellsBounds(<<"0">>, <<"0">>, <<"1", "0", "0">>, <<"5", "0">>) =>
         boundsOut[1] = [x |-> 0, y |-> 0, w |-> 100, h |-> 50]

\* C23 witness: a literal whose right edge is left of its left edge has
\* been parsed.
C23_Witness ==
  /\ SpellsBounds(<<"5", "0">>, <<"0">>, <<"1", "0">>, <<"5">>)
  /\ boundsOut = << [x |-> 50, y |-> 0, w |-> 0, h |-> 5] >>

BytesAfter(k) == BytesOf(RunIdx) - SumSizes(SubSeq(plan.delete, 1, k))

\* C26: a corpus within the budget gives an empty delete list whatever
\* keepLast and keepFailureDays are; every entry of plan.delete was added
\* while the bytes left were still above maxBytes, so afterBytes plus the
\* size of the last entry is above maxBytes.
C26_OnlyWhileOverBudget ==
  Planned =>
    /\ BytesOf(RunIdx) <= policy.maxBytes => plan.delete = <<>>
    /\ \A k \in 1..Len(plan.delete) : BytesAfter(k - 1) > policy.maxBytes
    /\ plan.delete # <<>> =>
         plan.afterBytes + plan.delete[Len(plan.delete)].sizeBytes > policy.maxBytes

\* C26 witness: the planner stopped in the unprotected runs: it deleted
\* one, met the budget and left an older-than-kept unprotected run alone.
C26_Witness ==
  /\ Planned
  /\ plan.delete # <<>>
  /\ plan.afterBytes <= policy.maxBytes
  /\ \E i \in RunIdx : ~Protected(i) /\ InKeep(i)

\* The run at position k of plan.delete, as a position in runs.
DeletedRun(k) == CHOOSE i \in RunIdx : runs[i].dir = plan.delete[k].dir

\* Run i goes before run j: unprotected runs before protected ones, then
\* the older first, then, of two that started at the same time, the one
\* the listing holds first.
GoesBefore(i, j) ==
  \/ ~Protected(i) /\ Protected(j)
  \/ /\ Protected(i) = Protected(j)
     /\ \/ runs[i].startedAt < runs[j].startedAt
        \/ runs[i].startedAt = runs[j].startedAt /\ i < j

\* C27: in plan.delete every unprotected run precedes every protected run,
\* each tier is in non-decreasing startedAt order, and runs of one tier
\* that started at the same time are in listing order; the deleted runs
\* are the first ones of that order, so that the listing, the policy and
\* the clock value fix the sequence.
C27_DeleteOrder ==
  Planned =>
    /\ \A a, b \in 1..Len(plan.delete) :
         a < b =>
           /\ GoesBefore(DeletedRun(a), DeletedRun(b))
           /\ Protected(DeletedRun(a)) => Protected(DeletedRun(b))
           /\ Protected(DeletedRun(a)) = Protected(DeletedRun(b))
                => plan.delete[a].startedAt <= plan.delete[b].startedAt
    /\ \A i, j \in RunIdx : (InDelete(i) /\ ~InDelete(j)) => GoesBefore(i, j)

\* C27 witness: two unprotected runs that started at the same time are
\* deleted, and a protected run after them.
C27_Witness ==
  /\ Planned
  /\ Len(plan.delete) = 3
  /\ plan.delete[1].startedAt = plan.delete[2].startedAt
  /\ ~Protected(DeletedRun(1))
  /\ ~Protected(DeletedRun(2))
  /\ Protected(DeletedRun(3))

(***************************************************************************)
(* What the executor leaves alone.                                         *)
(***************************************************************************)
\* The history of the directories created since planGC returned: a
\* directory joins when it appears on disk after planning and leaves when
\* it is removed.
TrackNewDirs ==
  newDirs' = { d \in 1..Len(fs) :
                 /\ fs'[d].exists
                 /\ \/ d \in newDirs /\ fs[d].exists
                    \/ Planned /\ ~fs[d].exists }

KeepDirs == DirsOf(plan.keep)

DeleteDirs == DirsOf(plan.delete)

DateParse(ts) ==
  CASE ts = "2026-01-01T00:00:00.000Z" -> <<0>>
    [] ts = "2026-01-01T00:04:59.999Z" -> <<299999>>
    [] OTHER -> <<>>

\* isOlderThanMs counting the limit itself as older.
isOlderThanMsInclusive(ts, ms, dateNow) ==
  LET t == DateParse(ts)
  IN IF t = <<>> THEN FALSE ELSE dateNow - t[1] >= ms

\* isOlderThanMs(ts, ms), dateNow standing for Date.now()
isOlderThanMs(ts, ms, dateNow) ==
  LET t == DateParse(ts)
  IN IF t = <<>> THEN FALSE ELSE dateNow - t[1] > ms

\* const stale = snapshot?.taken_at ? isOlderThanMs(snapshot.taken_at, 5 * 60 * 1000) : false
StaleOf(snap, dateNow) ==
  IF snap = <<>> THEN FALSE
  ELSE IF snap[1].taken_at = "" THEN FALSE
  ELSE isOlderThanMs(snap[1].taken_at, 5 * 60 * 1000, dateNow)

RefreshSnapshot == [label |-> "Refresh snapshot", argv |-> <<"ui", "snapshot", "-i">>]

\* What the device adapter (axe tap, adb shell input tap) answers.
AdapterResults == {"ok", "exit", "missing"}

TapFailed == CLIError("tap failed (code=1)", 1)

MissingDependency == CLIError("Missing dependency", 127)

\* The envelope of a command that threw (cli.ts).
ErrorEnvelope(error) == [ok |-> FALSE, error |-> error, next_steps |-> <<>>]

\* The envelope tapWithResolvedTarget returns.
TapEnvelope(tgt, stale) ==
  [ ok |-> TRUE,
    data |-> [x |-> tgt.x, y |-> tgt.y,
              ref |-> IF tgt.kind = "element" THEN tgt.element.ref ELSE Null],
    next_steps |-> IF stale THEN <<RefreshSnapshot>> ELSE <<>> ]

StaleIdle ==
  /\ tapNow = 0
  /\ envelope = <<>>

\* tapWithResolvedTarget from the tap on: the adapter taps, and the
\* envelope is built or the failure thrown.
TapPerform ==
  /\ tapPc = "tapped"
  /\ envelope = <<>>
  /\ \E res \in AdapterResults :
       envelope' = << CASE res = "ok" -> TapEnvelope(target, StaleOf(loaded, tapNow))
                        [] res = "exit" -> ErrorEnvelope(TapFailed)
                        [] OTHER -> ErrorEnvelope(MissingDependency) >>
  /\ tapPc' = "done"
  /\ UNCHANGED <<token, refOpt, selector, sessionFile, loaded, target, tapNow>>

\* A command that threw before the tap ends with the error envelope.
TapThrown ==
  /\ tapPc = "failed"
  /\ envelope = <<>>
  /\ envelope' = << ErrorEnvelope(target.error) >>
  /\ tapPc' = "done"
  /\ UNCHANGED <<token, refOpt, selector, sessionFile, loaded, target, tapNow>>

\* The taken_at values of the stored snapshots.
StaleStamps == {"2026-01-01T00:00:00.000Z", "2026-01-01T00:04:59.999Z", "yesterday"}

\* Date.now(): before the later snapshot, five minutes after the earlier
\* one to the millisecond, one millisecond on, and ten minutes after it.
StaleNows == {299000, 300000, 300001, 600000}

StaleFiles ==
  {NoFile}
    \cup { FileJson(SnapshotJson(buildSnapshot("ios", "UDID-123", Null, els, "uuid-1", stamp))) :
             els \in UNION { [1..n -> {e \in TapElements : e.name = "Sign in"}] : n \in 0..MaxElems },
             stamp \in StaleStamps }

StaleTokens ==
  { AtSign \o <<"e", "1">>,
    AtSign \o <<"e", "9">>,
    TextPrefix \o <<"\"">> \o SignIn \o <<"\"">>,
    IdPrefix \o <<"\"">> \o BtnSignIn \o <<"\"">>,
    CoordsPrefix \o <<"5", "0", ",", "6", "0">>,
    <<"t", "a", "p">> }

\* The age of the loaded snapshot at the time Date.now() gave, when its
\* taken_at is one of the two timestamps of the model.
SnapshotAge ==
  tapNow - (IF loaded[1].taken_at = "2026-01-01T00:00:00.000Z" THEN 0 ELSE 299999)

Dated == loaded # <<>> /\ loaded[1].taken_at # "yesterday"

FiveMinutes == 300000

\* C28: a ref, text or id tap resolved against a snapshot taken more than
\* five minutes before Date.now() is tapped all the same, and the result of
\* the tap carries the re-snapshot suggestion; a snapshot at most five
\* minutes old, and a coords selector, give no suggestion.  Staleness never
\* ends the command: a resolved tap fails only if the adapter fails.
C28_StaleSuggestsResnapshot ==
  envelope # <<>> =>
    LET env == envelope[1] IN
    /\ (env.ok /\ selector.selector.kind \in {"ref", "text", "id"}) =>
         /\ Dated /\ SnapshotAge > FiveMinutes => env.next_steps = <<RefreshSnapshot>>
         /\ Dated /\ SnapshotAge <= FiveMinutes => env.next_steps = <<>>
    /\ (env.ok /\ selector.selector.kind = "coords") => env.next_steps = <<>>
    /\ (~env.ok /\ target.kind \in {"element", "coords"}) => env.error \in {TapFailed, MissingDependency}
    /\ env.ok => target.kind \in {"element", "coords"} /\ env.data.x = target.x /\ env.data.y = target.y

\* C28 witness: a tap by ref on a snapshot five minutes and one millisecond
\* old went through and suggests the re-snapshot.
C28_Witness ==
  /\ envelope # <<>>
  /\ envelope[1].ok
  /\ selector.selector.kind = "ref"
  /\ Dated
  /\ SnapshotAge = FiveMinutes + 1
  /\ envelope[1].data.ref = "e1"
  /\ envelope[1].next_steps = <<RefreshSnapshot>>

(***************************************************************************)
(* The snapshot store: writeLastSnapshot, readLastSnapshot and             *)
(* atomicWriteFile.  A file is a path naming an inode; the text of a       *)
(* snapshot reaches its inode in two parts, and a text with one part only  *)
(* is one JSON.parse refuses.                                              *)
(***************************************************************************)
\* Number of writeLastSnapshot calls.
MaxWrites == 3

Sessions == {"default", "other"}

Writers == {1, 2}

\* getLastSnapshotPath(sessionName)
LastSnapshotPath(s) == <<s, "last_snapshot.json">>

\* atomicWriteFile writing straight to filePath.
TempPathIsTarget(filePath, w) == filePath

\* The temporary path of atomicWriteFile: beside filePath, with a random
\* suffix, w standing for the suffix of the call of writer w.
TempPath(filePath, w) == <<filePath[1], ".last_snapshot.json.tmp", w>>

StorePaths ==
  { LastSnapshotPath(s) : s \in Sessions }
    \cup { TempPath(LastSnapshotPath(s), w) : s \in Sessions, w \in Writers }

WriterIdle == [pc |-> "idle", session |-> Null, snap |-> 0]

ReaderIdle == [pc |-> "idle", session |-> Null, inode |-> 0, was |-> 0, result |-> 0]

StoreIdle ==
  /\ files = <<>>
  /\ inodes = <<>>
  /\ writes = 0
  /\ wr = <<>>
  /\ rd = ReaderIdle
  /\ latest = <<>>

StoreStart ==
  /\ files = [p \in StorePaths |-> 0]
  /\ inodes = <<>>
  /\ writes = 0
  /\ wr = [w \in Writers |-> WriterIdle]
  /\ rd = ReaderIdle
  /\ latest = [s \in Sessions |-> 0]

\* fs.writeFile(tmp, content), its first part: the file is created, or cut
\* to nothing when it is there, and the first part of the text written.
WriteOpen(w) ==
  /\ wr[w].pc = "idle"
  /\ writes < MaxWrites
  /\ \E s \in Sessions :
       LET tmp == TempPath(LastSnapshotPath(s), w)
           text == [snap |-> writes + 1, parts |-> 1]
       IN /\ IF files[tmp] = 0
             THEN /\ inodes' = Append(inodes, text)
                  /\ files' = [files EXCEPT ![tmp] = Len(inodes) + 1]
             ELSE /\ inodes' = [inodes EXCEPT ![files[tmp]] = text]
                  /\ UNCHANGED files
          /\ wr' = [wr EXCEPT ![w] = [pc |-> "writing", session |-> s, snap |-> writes + 1]]
  /\ writes' = writes + 1
  /\ UNCHANGED <<rd, latest>>

\* fs.writeFile(tmp, content), the rest of the text.
WriteRest(w) ==
  /\ wr[w].pc = "writing"
  /\ LET tmp == TempPath(LastSnapshotPath(wr[w].session), w)
     IN inodes' = [inodes EXCEPT ![files[tmp]] = [snap |-> wr[w].snap, parts |-> 2]]
  /\ wr' = [wr EXCEPT ![w].pc = "rename"]
  /\ UNCHANGED <<files, writes, rd, latest>>

\* fs.rename(tmp, filePath): filePath names the inode of tmp, tmp is gone.
\* The write is complete.
WriteRename(w) ==
  /\ wr[w].pc = "rename"
  /\ LET filePath == LastSnapshotPath(wr[w].session)
         tmp == TempPath(filePath, w)
     IN files' = [p \in StorePaths |->
                    IF p = filePath THEN files[tmp] ELSE IF p = tmp THEN 0 ELSE files[p]]
  /\ latest' = [latest EXCEPT ![wr[w].session] = wr[w].snap]
  /\ wr' = [wr EXCEPT ![w] = WriterIdle]
  /\ UNCHANGED <<inodes, writes, rd>>

\* fs.readFile(path), the open: the reader holds the inode the path names.
ReadOpen ==
  /\ rd.pc \in {"idle", "done"}
  /\ \E s \in Sessions :
       rd' = [pc |-> "open", session |-> s, inode |-> files[LastSnapshotPath(s)],
              was |-> latest[s], result |-> 0]
  /\ UNCHANGED <<files, inodes, writes, wr, latest>>

\* readLastSnapshot from the open on: the text of the inode is read and
\* parsed; no file, an empty text and a text that does not parse give null
\* (0), a snapshot is given by its number.
ReadParse ==
  /\ rd.pc = "open"
  /\ rd' = [rd EXCEPT !.pc = "done",
                      !.result = IF rd.inode = 0 THEN 0
                                 ELSE IF inodes[rd.inode].parts < 2 THEN 0
                                 ELSE inodes[rd.inode].snap]
  /\ UNCHANGED <<files, inodes, writes, wr, latest>>

\* The text the store holds for session s, <<>> when it holds none.
Stored(s) ==
  IF files[LastSnapshotPath(s)] = 0 THEN <<>> ELSE <<inodes[files[LastSnapshotPath(s)]]>>

\* The store has been set up.
StoreUp == files # <<>>

\* C25: the store holds, for every session, the whole text of the last
\* completed write and nothing when no write completed; a step changes what
\* it holds for a session only by completing a write to that session; a
\* read returns the snapshot whose write was the last completed one when
\* the read opened the file, or null when there was none, also when a write
\* to the session goes on or completes during the read.
C25_LatestSnapshotWhole ==
  /\ [](StoreUp =>
          \A s \in Sessions :
            Stored(s) = IF latest[s] = 0 THEN <<>> ELSE <<[snap |-> latest[s], parts |-> 2]>>)
  /\ [](StoreUp /\ rd.pc = "done" => rd.result = rd.was)
  /\ [][ StoreUp => \A s \in Sessions :
           Stored(s)' # Stored(s) =>
             \E w \in Writers : /\ wr[w].pc = "rename" /\ wr[w].session = s
                                /\ wr'[w].pc = "idle" /\ latest'[s] = wr[w].snap ]_vars

\* C25 witness: a read of a session returned the first snapshot in full
\* while a later write to the session completed during the read, and the
\* other session holds a snapshot of its own.
C25_Witness ==
  /\ StoreUp
  /\ rd.pc = "done"
  /\ rd.result # 0
  /\ latest[rd.session] > rd.result
  /\ \E s \in Sessions : s # rd.session /\ latest[s] # 0

(***************************************************************************)
(* withFileLock and the commands that change session.json under it.        *)
(***************************************************************************)
Procs == {1, 2, 3}

\* Who created a lock file that a killed process left behind.
Stale == 9

\* emptySession(), and what readSession gives when there is no file.
EmptyDefaults == [platform |-> Null, device |-> Null]

\* The operations: session set --platform / --device, session unset, and
\* session reset; --platform web is refused inside the critical section.
SessionOps ==
  { [kind |-> "set", key |-> "platform", value |-> "ios"],
    [kind |-> "set", key |-> "device", value |-> "booted"],
    [kind |-> "set", key |-> "platform", value |-> "web"],
    [kind |-> "unset", key |-> "platform", value |-> Null],
    [kind |-> "reset", key |-> Null, value |-> Null] }

\* The function under the lock throws before it writes.
Throws(op) == op.kind = "set" /\ op.key = "platform" /\ op.value \notin {"ios", "android"}

\* next of setSessionDefaults / unsetSessionKey
NextDefaults(op, current) ==
  IF op.kind = "set" THEN [current EXCEPT ![op.key] = op.value]
  ELSE [current EXCEPT ![op.key] = Null]

\* fs.open(lockPath, "wx") succeeds: the file is not there.
OpenCreates(lock) == lock = 0

ProcStart(op) ==
  [op |-> op, pc |-> "lock", holds |-> FALSE, waited |-> FALSE, current |-> EmptyDefaults]

LockIdle ==
  /\ lockFile = 0
  /\ sessionJson = EmptyDefaults
  /\ procs = <<>>

\* One round of the loop of withFileLock: the lock file is created and the
\* loop left, or the file is there and the process sleeps pollMs.
LockTry(p) ==
  /\ procs[p].pc = "lock"
  /\ IF OpenCreates(lockFile)
     THEN /\ lockFile' = p
          /\ procs' = [procs EXCEPT ![p].pc = "read", ![p].holds = TRUE]
     ELSE /\ procs' = [procs EXCEPT ![p].waited = TRUE]
          /\ UNCHANGED lockFile
  /\ UNCHANGED sessionJson

\* Date.now() > deadline after a sleep: the loop ends without the lock and
\* fn is run all the same.
LockGiveUp(p) ==
  /\ procs[p].pc = "lock"
  /\ procs[p].waited
  /\ procs' = [procs EXCEPT ![p].pc = "read"]
  /\ UNCHANGED <<lockFile, sessionJson>>

\* fn, first await: readSession; resetSession removes the session directory,
\* session.json and the lock file in it.
LockedRead(p) ==
  /\ procs[p].pc = "read"
  /\ IF procs[p].op.kind = "reset"
     THEN /\ sessionJson' = EmptyDefaults
          /\ lockFile' = 0
          /\ procs' = [procs EXCEPT ![p].pc = IF procs[p].holds THEN "unlock" ELSE "done"]
     ELSE /\ procs' = [procs EXCEPT ![p].current = sessionJson,
                                    ![p].pc = IF ~Throws(procs[p].op) THEN "write"
                                              ELSE IF procs[p].holds THEN "unlock" ELSE "done"]
          /\ UNCHANGED <<lockFile, sessionJson>>

\* fn, second await: writeSession(next)
LockedWrite(p) ==
  /\ procs[p].pc = "write"
  /\ sessionJson' = NextDefaults(procs[p].op, procs[p].current)
  /\ procs' = [procs EXCEPT ![p].pc = IF procs[p].holds THEN "unlock" ELSE "done"]
  /\ UNCHANGED lockFile

\* finally: handle.close(), fs.unlink(lockPath)
Unlock(p) ==
  /\ procs[p].pc = "unlock"
  /\ lockFile' = 0
  /\ procs' = [procs EXCEPT ![p].pc = "done"]
  /\ UNCHANGED sessionJson

\* Process p is inside fn.
InCritical(p) == procs[p].pc \in {"read", "write"}

LockUp == procs # <<>>

AllDone == \A p \in Procs : procs[p].pc = "done"

NoReset == \A p \in Procs : procs[p].op.kind # "reset"

\* The update of p is in session.json.
Reflected(p) ==
  LET op == procs[p].op
  IN IF op.kind = "set" THEN sessionJson[op.key] = op.value ELSE sessionJson[op.key] = Null

\* C30 as stated: critical sections never overlap, and once two concurrent
\* set or unset calls on different keys are done, session.json reflects
\* both.
C30_Original ==
  LockUp =>
    /\ \A p, q \in Procs : (p # q /\ InCritical(p)) => ~InCritical(q)
    /\ (AllDone /\ NoReset) =>
         \A p, q \in Procs :
           (/\ p # q
            /\ ~Throws(procs[p].op) /\ ~Throws(procs[q].op)
            /\ procs[p].op.key # procs[q].op.key
            /\ \A r \in Procs \ {p, q} : Throws(procs[r].op))
             => Reflected(p) /\ Reflected(q)

\* What the lock does give: the processes that created the lock file are
\* never inside fn together as long as no resetSession runs beside them; a
\* holder removes the lock file when fn returned or threw; when every
\* process got the lock, no update is lost.
HoldersExclusive ==
  /\ []((LockUp /\ NoReset) =>
          \A p, q \in Procs :
            (p # q /\ procs[p].holds /\ InCritical(p)) => ~(procs[q].holds /\ InCritical(q)))
  /\ []((LockUp /\ NoReset) =>
          \A p \in Procs : (procs[p].holds /\ procs[p].pc # "done") => lockFile = p)
  /\ [][ LockUp => \A p \in Procs :
           (procs[p].pc = "unlock" /\ procs'[p].pc = "done") => lockFile' = 0 ]_vars
  /\ []((LockUp /\ AllDone /\ NoReset /\ \A p \in Procs : procs[p].holds) =>
          /\ lockFile = 0
          /\ \A p \in Procs :
               (~Throws(procs[p].op)
                /\ \A q \in Procs \ {p} : Throws(procs[q].op) \/ procs[q].op.key # procs[p].op.key)
                 => Reflected(p))

\* Two processes set the platform and the device, one of them after waiting
\* for the lock, a third one threw under the lock; all held the lock, the
\* lock file is gone and session.json has both values.
HoldersServed ==
  /\ LockUp
  /\ AllDone
  /\ \A p \in Procs : procs[p].holds
  /\ \E p \in Procs : procs[p].waited
  /\ \E p \in Procs : Throws(procs[p].op)
  /\ lockFile = 0
  /\ sessionJson = [platform |-> "ios", device |-> "booted"]

(***************************************************************************)
(* Specifications.                                                         *)
(***************************************************************************)
\* The variables outside the snapshot, retention and selector subsystems at
\* their idle values.
ExtIdle == BoundsIdle /\ StaleIdle /\ StoreIdle /\ LockIdle /\ newDirs = {}

\* The snapshot command on every payload.
InitSnapshot == InitSnapshotVars /\ GCIdle /\ SelIdle /\ ExtIdle

NextSnapshot ==
  \/ ParseIOS /\ UNCHANGED <<gcVars, selVars, extVars>>
  \/ ParseAndroid /\ UNCHANGED <<gcVars, selVars, extVars>>
  \/ BuildSnapshot /\ UNCHANGED <<gcVars, selVars, extVars>>
  \/ Resnapshot /\ UNCHANGED <<gcVars, selVars, extVars>>

SpecSnapshot == InitSnapshot /\ [][NextSnapshot]_vars

\* The planner on every disk and policy, nothing else running.
InitPlan == SnapIdle /\ SelIdle /\ ExtIdle /\ fs \in PlanDisks /\ GCStart

NextPlan ==
  \/ ListReaddir /\ UNCHANGED <<snapVars, selVars, extVars>>
  \/ ListEntry /\ UNCHANGED <<snapVars, selVars, extVars>>
  \/ PlanStep /\ UNCHANGED <<snapVars, selVars, extVars>>

SpecPlan == InitPlan /\ [][NextPlan]_vars

\* The gc command beside other processes working on the run directories.
InitGC == SnapIdle /\ SelIdle /\ ExtIdle /\ fs = ExecDisk /\ GCStart

NextGC ==
  \/ ListReaddir /\ TrackNewDirs /\ UNCHANGED <<snapVars, selVars, quietVars>>
  \/ ListEntry /\ TrackNewDirs /\ UNCHANGED <<snapVars, selVars, quietVars>>
  \/ PlanExec /\ TrackNewDirs /\ UNCHANGED <<snapVars, selVars, quietVars>>
  \/ ExecDryRun /\ TrackNewDirs /\ UNCHANGED <<snapVars, selVars, quietVars>>
  \/ ExecStat /\ TrackNewDirs /\ UNCHANGED <<snapVars, selVars, quietVars>>
  \/ ExecRm /\ TrackNewDirs /\ UNCHANGED <<snapVars, selVars, quietVars>>
  \/ ExecDone /\ TrackNewDirs /\ UNCHANGED <<snapVars, selVars, quietVars>>
  \/ EnvTouch /\ TrackNewDirs /\ UNCHANGED <<snapVars, selVars, quietVars>>
  \/ EnvRemove /\ TrackNewDirs /\ UNCHANGED <<snapVars, selVars, quietVars>>
  \/ EnvCreate /\ TrackNewDirs /\ UNCHANGED <<snapVars, selVars, quietVars>>

SpecGC == InitGC /\ [][NextGC]_vars

\* The selector parser on every token.
InitParse ==
  /\ SnapIdle
  /\ GCIdle
  /\ ExtIdle
  /\ token \in ParseTokens
  /\ refOpt = <<>>
  /\ selector = NoSelector
  /\ sessionFile = NoFile
  /\ loaded = <<>>
  /\ target = NoTarget
  /\ tapPc = "start"

NextParse == TapParse /\ UNCHANGED <<snapVars, gcVars, extVars>>

SpecParse == InitParse /\ [][NextParse]_vars

\* ui tap on every command line and every last-snapshot file.
InitTap ==
  /\ SnapIdle
  /\ GCIdle
  /\ ExtIdle
  /\ \/ token \in TapTokens /\ refOpt = <<>>
     \/ token \in {<<>>, AtSign \o <<"e", "1">>} /\ refOpt \in TapRefOptions
     \/ token = <<>> /\ refOpt = <<>>
  /\ selector = NoSelector
  /\ sessionFile \in TapFiles
  /\ loaded = <<>>
  /\ target = NoTarget
  /\ tapPc = "start"

NextTap ==
  \/ TapParse /\ UNCHANGED <<snapVars, gcVars, extVars>>
  \/ TapLoad /\ UNCHANGED <<snapVars, gcVars, extVars>>
  \/ TapResolve /\ UNCHANGED <<snapVars, gcVars, extVars>>

SpecTap == InitTap /\ [][NextTap]_vars

\* The snapshot command on flat iOS dumps of near-identical nodes.
InitDedup ==
  /\ platform = "ios"
  /\ raw \in DedupPayloads
  /\ interactiveOnly = FALSE
  /\ parsed = <<>>
  /\ snapshot = NoSnapshot
  /\ snapPc = "raw"
  /\ GCIdle
  /\ SelIdle
  /\ ExtIdle

NextDedup ==
  \/ ParseIOS /\ UNCHANGED <<gcVars, selVars, extVars>>
  \/ BuildSnapshot /\ UNCHANGED <<gcVars, selVars, extVars>>

SpecDedup == InitDedup /\ [][NextDedup]_vars

\* parseAndroidBounds on every value of the bounds attribute.
InitBounds ==
  /\ SnapIdle
  /\ GCIdle
  /\ SelIdle
  /\ boundsText \in {<<>>} \cup { <<cs>> : cs \in BoundsTexts }
  /\ boundsOut = <<>>
  /\ StaleIdle
  /\ StoreIdle
  /\ LockIdle
  /\ newDirs = {}

NextBounds == ParseBounds /\ UNCHANGED <<snapVars, gcVars, selVars, staleVars, storeVars, lockVars, newDirs>>

SpecBounds == InitBounds /\ [][NextBounds]_vars

\* ui tap to its end, on snapshots of several ages.
InitStale ==
  /\ SnapIdle
  /\ GCIdle
  /\ BoundsIdle
  /\ StoreIdle
  /\ LockIdle
  /\ newDirs = {}
  /\ token \in StaleTokens
  /\ refOpt = <<>>
  /\ selector = NoSelector
  /\ sessionFile \in StaleFiles
  /\ loaded = <<>>
  /\ target = NoTarget
  /\ tapPc = "start"
  /\ tapNow \in StaleNows
  /\ envelope = <<>>

NextStale ==
  \/ TapParse /\ UNCHANGED <<snapVars, gcVars, boundsVars, storeVars, lockVars, newDirs, staleVars>>
  \/ TapLoad /\ UNCHANGED <<snapVars, gcVars, boundsVars, storeVars, lockVars, newDirs, staleVars>>
  \/ TapResolve /\ UNCHANGED <<snapVars, gcVars, boundsVars, storeVars, lockVars, newDirs, staleVars>>
  \/ TapPerform /\ UNCHANGED <<snapVars, gcVars, boundsVars, storeVars, lockVars, newDirs>>
  \/ TapThrown /\ UNCHANGED <<snapVars, gcVars, boundsVars, storeVars, lockVars, newDirs>>

SpecStale == InitStale /\ [][NextStale]_vars

\* Two writers and a reader on the snapshot store.
InitStore ==
  /\ SnapIdle
  /\ GCIdle
  /\ SelIdle
  /\ BoundsIdle
  /\ StaleIdle
  /\ LockIdle
  /\ newDirs = {}
  /\ StoreStart

NextStore ==
  \/ \E w \in Writers : WriteOpen(w) /\ UNCHANGED <<snapVars, gcVars, selVars, boundsVars, staleVars, lockVars, newDirs>>
  \/ \E w \in Writers : WriteRest(w) /\ UNCHANGED <<snapVars, gcVars, selVars, boundsVars, staleVars, lockVars, newDirs>>
  \/ \E w \in Writers : WriteRename(w) /\ UNCHANGED <<snapVars, gcVars, selVars, boundsVars, staleVars, lockVars, newDirs>>
  \/ ReadOpen /\ UNCHANGED <<snapVars, gcVars, selVars, boundsVars, staleVars, lockVars, newDirs>>
  \/ ReadParse /\ UNCHANGED <<snapVars, gcVars, selVars, boundsVars, staleVars, lockVars, newDirs>>

SpecStore == InitStore /\ [][NextStore]_vars

\* Three processes changing one session, with or without a lock file left
\* behind by a killed process.
InitLock ==
  /\ SnapIdle
  /\ GCIdle
  /\ SelIdle
  /\ BoundsIdle
  /\ StaleIdle
  /\ StoreIdle
  /\ newDirs = {}
  /\ lockFile \in {0, Stale}
  /\ sessionJson \in {EmptyDefaults, [platform |-> "android", device |-> Null]}
  /\ procs \in { [p \in Procs |-> ProcStart(ops[p])] : ops \in [Procs -> SessionOps] }

NextLock ==
  \/ \E p \in Procs : LockTry(p) /\ UNCHANGED <<snapVars, gcVars, selVars, boundsVars, staleVars, storeVars, newDirs>>
  \/ \E p \in Procs : LockGiveUp(p) /\ UNCHANGED <<snapVars, gcVars, selVars, boundsVars, staleVars, storeVars, newDirs>>
  \/ \E p \in Procs : LockedRead(p) /\ UNCHANGED <<snapVars, gcVars, selVars, boundsVars, staleVars, storeVars, newDirs>>
  \/ \E p \in Procs : LockedWrite(p) /\ UNCHANGED <<snapVars, gcVars, selVars, boundsVars, staleVars, storeVars, newDirs>>
  \/ \E p \in Procs : Unlock(p) /\ UNCHANGED <<snapVars, gcVars, selVars, boundsVars, staleVars, storeVars, newDirs>>

SpecLock == InitLock /\ [][NextLock]_vars

Init == InitGC
Next == NextGC
Spec == SpecGC

=============================================================================
